---- MODULE Spec2Model ----
(***************************************************************************)
(* Daily QuickSight dataset refresh (saeidkp/lambdacron).                  *)
(*                                                                         *)
(* Three coordinators are modelled, selected by the variable `variant`:    *)
(*   "dailycron"  lambda_handler of dailycron.py (sleep 2 s, then revert)  *)
(*   "fixed"      lambda_handler of fixed.py     (no wait at all)          *)
(*   "con"        process_single_dataset_with_wait of con.py, called once  *)
(*                per dataset, with the helpers of dailycron.py            *)
(* The remote service holds, per dataset, a physical table map and at most *)
(* one ingestion job; the job is the environment and moves on its own.     *)
(*                                                                         *)
(* Spec runs the coordinators from the entry of lambda_handler.            *)
(* WaiterSpec runs the two waiters of con.py on their own, for any timeout *)
(* and any sequence of poll results; RewriterSpec runs the narrow and      *)
(* widen rewriters of dailycron.py, fixed.py and cron2.py on any query     *)
(* text of the bounded space.                                              *)
(*                                                                         *)
(* A query text is a sequence of tokens, each token one piece of SQL:      *)
(*   txt  text without a date predicate and without GROUP BY               *)
(*   grp  " GROUP BY ..."                                                  *)
(*   whr  "\nWHERE " as inserted by dailycron.py                           *)
(*   ge   <a>yyyymmdd >= CAST(format_datetime(current_date - interval      *)
(*            '<w>' day, 'yyyyMMdd') AS INTEGER)                           *)
(*   btw  <a>yyyymmdd BETWEEN CAST(.. '<w>' day ..) AND CAST(.. '1' day ..)*)
(*   eq   <a>yyyymmdd = <w>            (w an 8-digit date)                 *)
(* with a the table-alias prefix ("" for none, "bv.", "q.").               *)
(***************************************************************************)
EXTENDS Integers, Sequences, FiniteSets, TLC

VARIABLES
    variant,        \* which coordinator runs
    helpers,        \* what the helper names the coordinator calls are bound
                    \* to: "own" (defined in its module), "dailycron"
                    \* (con.py run with dailycron.py's helpers in its
                    \* globals) or "undefined" (con.py as it stands)
    yyyymmdd,       \* target date of the run
    tables,         \* remote: dataset -> physical table map (sequence of tables)
    original,       \* remote: the physical table maps before the run
    job,            \* remote: dataset -> ingestion status ("NONE" before submit)
    jobRead,        \* remote: dataset -> form of the query the job read
    idx,            \* loop index of the coordinator (1-based)
    pc,             \* dataset -> position of its processing ("queued": not yet
                    \* handed to a worker of the pool)
    ingestion_id,   \* dataset -> handle returned by the trigger
    wait_success,   \* dataset -> result of wait_for_refresh_to_start:
                    \* "unset" before it returns, then "True" or "False"
    elapsed,        \* dataset -> time.time() - start_time inside the waiter
    fault,          \* dataset -> which remote call failed for it ("none")
    calls,          \* dataset -> log of the remote calls issued for it
    results,        \* list of per-dataset outcomes
    successful,     \* success counter
    failed,         \* failure counter
    response,       \* value returned by the entry point (NoResponse before)
    entry,          \* position of the entry point: the statement it is at,
                    \* "loop", or "escaped" once an error has left it
    raised,         \* the error that left the entry point ("none")
    \* a waiter of con.py run on its own
    waiter,         \* which one: "start" or "completion" ("none": not run)
    timeout_seconds, \* its timeout_seconds argument
    poll_seconds,   \* time one describe_ingestion call takes
    now,            \* time.time() - start_time
    polls,          \* number of polls made so far
    poll_at,        \* value of now when the last poll was issued (-1: no poll)
    waiter_at,      \* where its loop stands: "check" (the loop condition)
                    \* or "sleep" (the poll is back, time.sleep is entered)
    ingestion_status, \* result of the last poll ("error": it raised;
                    \* "NONE": no poll yet)
    observed,       \* results of the polls made so far (statuses, "error")
    result,         \* what the waiter returned (NoResult while it runs)
    \* a filter rewriter run on its own
    rewriter,       \* which module's pair of rewriters ("none": not run)
    input,          \* the query text the first rewriter was given
    query,          \* the query text after the rewriters applied so far
    window,         \* the window_days argument of the widen
    applied,        \* the rewriters applied so far, in order
    count,          \* replacement count reported by the last one (-1: none)
    \* the target-date computation run on its own
    today,          \* datetime.now(): [ordinal, hour] (NoDate: not run)
    target_date,    \* what get_previous_business_day returned (NoDate before)
    formatted       \* target_date.strftime('%Y%m%d') (NotFormatted before)

\* state of the coordinators
coordVars == <<variant, helpers, original, yyyymmdd, tables, job, jobRead, idx, pc, ingestion_id,
               wait_success, elapsed, fault, calls, results, successful,
               failed, response, entry, raised>>

\* state of the helper functions when they are run on their own
waiterVars == <<waiter, timeout_seconds, poll_seconds, now, polls, poll_at, waiter_at,
                ingestion_status, observed, result>>

rewriterVars == <<rewriter, input, query, window, applied, count>>

dateVars == <<today, target_date, formatted>>

helperVars == <<waiterVars, rewriterVars, dateVars>>

vars == <<coordVars, helperVars>>

(***************************************************************************)
(* Bounds and program constants                                            *)
(***************************************************************************)
NumDatasets == 2

WaitTimeoutSeconds == 60

StartCheckInterval == 3

CompletionCheckInterval == 10

\* largest timeout_seconds argument a waiter run on its own is given
MaxTimeout == 21

Timeouts == 0..MaxTimeout

\* time one describe_ingestion call can take
PollDurations == {0, 1}

\* polls after which a waiter run on its own is no longer followed
MaxPolls == MaxTimeout + 1

\* largest number of pieces of a query text given to a rewriter run on its own
MaxQueryLen == 3

Datasets == 1..NumDatasets

Variants == {"dailycron", "fixed", "con"}

\* rolling_window_days of the configured datasets, in configuration order
WindowConfig == <<30, 60, 90, 45, 120, 180, 365, 30, 252, 90, 60, 150, 30>>

RollingWindowDays(d) == WindowConfig[((d - 1) % Len(WindowConfig)) + 1]

TargetDates == {20250108}

NoId == <<>>

NoResponse == [statusCode |-> 0]

(***************************************************************************)
(* Query text                                                              *)
(***************************************************************************)
Tok(k, a, w) == [k |-> k, a |-> a, w |-> w]

Txt == Tok("txt", "", 0)

Grp == Tok("grp", "", 0)

Whr == Tok("whr", "", 0)

Ge(a, w) == Tok("ge", a, w)

Btw(a, w) == Tok("btw", a, w)

Eq(a, date) == Tok("eq", a, date)

RECURSIVE Flatten(_)
Flatten(ss) == IF ss = <<>> THEN <<>> ELSE Head(ss) \o Flatten(Tail(ss))

\* the text holds a piece of kind k
HasKind(q, k) == \E i \in 1..Len(q) : q[i].k = k

\* the text holds "yyyymmdd = <date>"
HasEqDate(q, date) == \E i \in 1..Len(q) : q[i].k = "eq" /\ q[i].w = date

(***************************************************************************)
(* Filter rewriters                                                        *)
(***************************************************************************)
\* dailycron.py: the three >= patterns carry no alias and no word boundary,
\* so they match the part of a predicate after its alias prefix
dailycron_sub_rolling(t, date) == IF t.k = "ge" THEN Eq(t.a, date) ELSE t

\* dailycron.py: "If no existing filter found, add one"
dailycron_add_filter(q, date) ==
    IF HasKind(q, "grp")
    THEN Flatten([i \in 1..Len(q) |->
                    IF q[i].k = "grp" THEN <<Whr, Eq("", date), q[i]>>
                    ELSE <<q[i]>>])
    ELSE q \o <<Whr, Eq("", date)>>

dailycron_replace_rolling_window_with_single_day(sql, date) ==
    LET modified_sql == [i \in 1..Len(sql) |-> dailycron_sub_rolling(sql[i], date)]
    IN  IF ~HasEqDate(modified_sql, date) /\ ~HasKind(modified_sql, "ge")
        THEN dailycron_add_filter(modified_sql, date)
        ELSE modified_sql

dailycron_sub_single_day(t, window_days) ==
    IF t.k = "eq" THEN Ge(t.a, window_days) ELSE t

dailycron_replace_single_day_with_rolling_window(sql, window_days) ==
    [i \in 1..Len(sql) |-> dailycron_sub_single_day(sql[i], window_days)]

\* fixed.py: both patterns are anchored on the literal alias bv.
fixed_sub_rolling(t, date) ==
    IF t.k \in {"btw", "ge"} /\ t.a = "bv." THEN Eq("bv.", date) ELSE t

fixed_replace_rolling_window_with_single_day(sql, date) ==
    [i \in 1..Len(sql) |-> fixed_sub_rolling(sql[i], date)]

fixed_sub_single_day(t, window_days) ==
    IF t.k = "eq" /\ t.a = "bv." THEN Btw("bv.", window_days) ELSE t

fixed_replace_single_day_with_rolling_window(sql, window_days) ==
    [i \in 1..Len(sql) |-> fixed_sub_single_day(sql[i], window_days)]

\* variant of cron2_sub_rolling: the captured alias is not put back
cron2_sub_rolling_noAlias(t, date) == IF t.k = "ge" THEN Eq("", date) ELSE t

\* cron2.py: pattern 1 keeps the alias it captured, pattern 2 is the
\* predicate without alias; BETWEEN is not among the patterns
cron2_sub_rolling(t, date) == IF t.k = "ge" THEN Eq(t.a, date) ELSE t

cron2_replace_all_yyyymmdd_filters(sql, date) ==
    [i \in 1..Len(sql) |-> cron2_sub_rolling(sql[i], date)]

cron2_sub_single_day(t, window_days) ==
    IF t.k = "eq" THEN Ge(t.a, window_days) ELSE t

\* variant of cron2_revert_all_yyyymmdd_filters: re.sub with count=1, only
\* the first single-day predicate is rewritten
cron2_revert_all_yyyymmdd_filters_firstOnly(sql, window_days) ==
    [i \in 1..Len(sql) |->
        IF \A j \in 1..(i - 1) : sql[j].k # "eq"
        THEN cron2_sub_single_day(sql[i], window_days) ELSE sql[i]]

cron2_revert_all_yyyymmdd_filters(sql, window_days) ==
    [i \in 1..Len(sql) |-> cron2_sub_single_day(sql[i], window_days)]

\* the replacement counts the rewriters print or log
cron2_replacement_count(sql) ==
    Cardinality({i \in 1..Len(sql) : sql[i].k = "ge"})

cron2_revert_count(sql) ==
    Cardinality({i \in 1..Len(sql) : sql[i].k = "eq"})

fixed_replacement_count(sql) ==
    Cardinality({i \in 1..Len(sql) : sql[i].k \in {"btw", "ge"} /\ sql[i].a = "bv."})

fixed_revert_count(sql) ==
    Cardinality({i \in 1..Len(sql) : sql[i].k = "eq" /\ sql[i].a = "bv."})

\* dailycron.py returns the text only and logs no count
NotReported == -1

\* the rewriter each coordinator calls
NarrowSql(v, sql, date) ==
    IF v = "fixed" THEN fixed_replace_rolling_window_with_single_day(sql, date)
    ELSE dailycron_replace_rolling_window_with_single_day(sql, date)

WidenSql(v, sql, window_days) ==
    IF v = "fixed" THEN fixed_replace_single_day_with_rolling_window(sql, window_days)
    ELSE dailycron_replace_single_day_with_rolling_window(sql, window_days)

\* the rewriters of each module, by the module's name
RewriterNarrow(rw, sql, date) ==
    IF rw = "cron2" THEN cron2_replace_all_yyyymmdd_filters(sql, date)
    ELSE NarrowSql(rw, sql, date)

RewriterWiden(rw, sql, window_days) ==
    IF rw = "cron2" THEN cron2_revert_all_yyyymmdd_filters(sql, window_days)
    ELSE WidenSql(rw, sql, window_days)

NarrowCount(rw, sql) ==
    CASE rw = "cron2" -> cron2_replacement_count(sql)
      [] rw = "fixed" -> fixed_replacement_count(sql)
      [] OTHER        -> NotReported

WidenCount(rw, sql) ==
    CASE rw = "cron2" -> cron2_revert_count(sql)
      [] rw = "fixed" -> fixed_revert_count(sql)
      [] OTHER        -> NotReported

(***************************************************************************)
(* Remote dataset records                                                  *)
(***************************************************************************)
CustomSql(q) == [custom |-> TRUE, sql |-> q]

RelationalTable == [custom |-> FALSE, sql |-> <<>>]

\* index of the first table with a CustomSql entry, 0 when there is none
FirstCustom(map) ==
    IF \E i \in 1..Len(map) : map[i].custom
    THEN CHOOSE i \in 1..Len(map) :
            map[i].custom /\ \A j \in 1..(i - 1) : ~map[j].custom
    ELSE 0

\* the date of the run before this one
EarlierDate == 20250107

\* the remote records a dataset can hold before the run: a rolling window
\* of the configured length in either shape, no custom-SQL table, a query
\* without date predicate next to another table, a query left in
\* single-day form by an earlier run, two custom-SQL tables, the empty
\* query, and a single-day form with a table alias
InitialRecords(d) ==
    << <<CustomSql(<<Txt, Ge("", RollingWindowDays(d))>>)>>,
       <<CustomSql(<<Txt, Btw("bv.", RollingWindowDays(d)), Grp>>)>>,
       <<RelationalTable>>,
       <<RelationalTable, CustomSql(<<Txt>>)>>,
       <<CustomSql(<<Txt, Eq("", EarlierDate)>>)>>,
       <<CustomSql(<<Txt, Ge("", RollingWindowDays(d))>>),
         CustomSql(<<Txt, Ge("q.", RollingWindowDays(d)), Grp>>)>>,
       <<CustomSql(<<>>)>>,
       <<CustomSql(<<Txt, Eq("bv.", EarlierDate)>>)>> >>

NumRecords == Len(InitialRecords(1))

\* the datasets hold consecutive records of the list; the list is entered
\* at every second record, so that each record is held by one of the first
\* two datasets in some run
RecordOffsets == {k \in 0..(NumRecords - 1) : k % 2 = 1}

(***************************************************************************)
(* Remote calls and their log                                              *)
(***************************************************************************)
Call(op, step, id) == [op |-> op, step |-> step, id |-> id]

DescribeDataSet(step) == Call("describe_data_set", step, NoId)

UpdateDataSet(step) == Call("update_data_set", step, NoId)

\* variant of IngestionType: the reload is submitted as a full refresh
IngestionType_full == "FULL_REFRESH"

\* IngestionType='INCREMENTAL_REFRESH'
IngestionType == "INCREMENTAL_REFRESH"

CreateIngestion(id) ==
    [op |-> "create_ingestion", step |-> "trigger", id |-> id,
     IngestionType |-> IngestionType]

DescribeIngestion(id) == Call("describe_ingestion", "wait", id)

\* consecutive polls with the same handle are logged once
LogPoll(log, id) ==
    IF log # <<>> /\ log[Len(log)] = DescribeIngestion(id) THEN log
    ELSE Append(log, DescribeIngestion(id))

\* ingestion_id = f"daily-{yyyymmdd}-{datetime.now().strftime('%H%M%S')}"
NewIngestionId(date) == <<"daily", date, "HHMMSS">>

\* variant of PollHandle: the waiter polls with a handle of its own
PollHandle_stale(id) == NoId

\* the handle the waiter is called with
PollHandle(id) == id

StartedSet == {"INITIALIZED", "QUEUED", "RUNNING"}

TerminalSet == {"COMPLETED", "FAILED", "CANCELLED"}

\* what a poll can give: a status, or "error" when describe_ingestion raises
PollResults == {"CREATED"} \cup StartedSet \cup TerminalSet \cup {"error"}

\* a waiter's loop is still running
NoResult == [returned |-> FALSE]

Returned(value) == [returned |-> TRUE, value |-> value]

\* variant of StartWaiterReturns: a running job is not yet taken as started
StartWaiterReturns_terminalOnly(r) ==
    IF r \in TerminalSet THEN Returned(TRUE) ELSE NoResult

\* variant of StartWaiterReturns: a finished job is not taken as started
StartWaiterReturns_startedOnly(r) ==
    IF r \in StartedSet THEN Returned(TRUE) ELSE NoResult

\* wait_for_refresh_to_start, one pass of the loop with poll result r:
\* the value returned, NoResult when the loop goes on
StartWaiterReturns(r) ==
    IF r \in StartedSet \/ r \in TerminalSet THEN Returned(TRUE) ELSE NoResult

\* variant of StartWaiterSleeps: the loop polls again without sleeping
StartWaiterSleeps_none(r) == 0

\* variant of StartWaiterSleeps: the except branch polls again at once
StartWaiterSleeps_notOnError(r) == IF r = "error" THEN 0 ELSE StartCheckInterval

\* seconds slept in a pass of the loop that does not return
StartWaiterSleeps(r) == StartCheckInterval

\* variant of CompletionWaiterReturns: it gives up on a job in progress
CompletionWaiterReturns_givesUp(r) ==
    CASE r = "COMPLETED" -> Returned([status |-> "completed", success |-> TRUE])
      [] r = "FAILED"    -> Returned([status |-> "failed", success |-> FALSE,
                                      error |-> "ErrorInfo"])
      [] r = "CANCELLED" -> Returned([status |-> "cancelled", success |-> FALSE])
      [] r \in StartedSet -> Returned([status |-> "timeout", success |-> FALSE])
      [] OTHER           -> NoResult

\* wait_for_refresh_completion, one pass of the loop with poll result r
CompletionWaiterReturns(r) ==
    CASE r = "COMPLETED" -> Returned([status |-> "completed", success |-> TRUE])
      [] r = "FAILED"    -> Returned([status |-> "failed", success |-> FALSE,
                                      error |-> "ErrorInfo"])
      [] r = "CANCELLED" -> Returned([status |-> "cancelled", success |-> FALSE])
      [] OTHER           -> NoResult

\* it sleeps after a started status and after an error, not otherwise
CompletionWaiterSleeps(r) ==
    IF r \in StartedSet \/ r = "error" THEN CompletionCheckInterval ELSE 0

WaiterReturns(w, r) ==
    IF w = "start" THEN StartWaiterReturns(r) ELSE CompletionWaiterReturns(r)

WaiterSleeps(w, r) ==
    IF w = "start" THEN StartWaiterSleeps(r) ELSE CompletionWaiterSleeps(r)

\* the value returned once the loop condition fails
WaiterTimesOut(w) ==
    IF w = "start" THEN Returned(FALSE)
    ELSE Returned([status |-> "timeout", success |-> FALSE])

\* the remote job: submitted, then started, then terminal
JobSuccessors(s) ==
    CASE s = "CREATED"     -> {"INITIALIZED"}
      [] s = "INITIALIZED" -> {"QUEUED"}
      [] s = "QUEUED"      -> {"RUNNING", "CANCELLED"}
      [] s = "RUNNING"     -> {"COMPLETED", "FAILED"}
      [] OTHER             -> {}

(***************************************************************************)
(* Helpers of the coordinators: describe, rewrite, update                  *)
(***************************************************************************)
NarrowFaults == {"none", "narrow_describe", "narrow_update"}

RevertFaults == {"none", "revert_describe", "revert_update"}

\* calls issued by modify_dataset_sql_for_single_day / .._to_single_day
ModifyCalls(map, f) ==
    IF f = "narrow_describe" \/ FirstCustom(map) = 0
    THEN <<DescribeDataSet("narrow")>>
    ELSE <<DescribeDataSet("narrow"), UpdateDataSet("narrow")>>

ModifyCommits(map, f) == f = "none" /\ FirstCustom(map) # 0

\* variant of ModifyReturnsTruthy: the coordinator does not test the result
ModifyReturnsTruthy_unchecked(v, map, f) == TRUE

\* what the coordinator tests: original_sql (dailycron.py, con.py) or True
\* (fixed.py) after a committed update, None / False otherwise
ModifyReturnsTruthy(v, map, f) ==
    /\ ModifyCommits(map, f)
    /\ (v = "fixed" \/ map[FirstCustom(map)].sql # <<>>)

\* what made the narrow step fail for the coordinator: the describe
\* raised, the loop found no table with a CustomSql entry, the update
\* raised, or the helper returned an empty original_sql, which is falsy
\* ("none": it did not fail)
ModifyFailure(v, map, f) ==
    CASE f = "narrow_describe" -> "narrow_describe"
      [] FirstCustom(map) = 0  -> "narrow_notable"
      [] f = "narrow_update"   -> "narrow_update"
      [] ~ModifyReturnsTruthy(v, map, f) -> "narrow_falsy"
      [] OTHER                 -> f

\* the PhysicalTableMap sent by the update holds the rewritten table only
ModifiedMap(v, map, date) ==
    <<CustomSql(RewriterNarrow(v, map[FirstCustom(map)].sql, date))>>

\* calls issued by revert_dataset_sql_to_rolling_window / .._to_window
RevertCalls(map, f) ==
    IF f = "revert_describe" \/ FirstCustom(map) = 0
    THEN <<DescribeDataSet("revert")>>
    ELSE <<DescribeDataSet("revert"), UpdateDataSet("revert")>>

\* the helper's return value: True exactly when its update went through
RevertReturns(map, f) == f = "none" /\ FirstCustom(map) # 0

RevertedMap(v, map, window_days) ==
    <<CustomSql(RewriterWiden(v, map[FirstCustom(map)].sql, window_days))>>

(***************************************************************************)
(* Outcomes and response                                                   *)
(***************************************************************************)
NarrowErrorMessage(v) ==
    IF v = "fixed" THEN "Failed to modify SQL" ELSE "Failed to modify dataset SQL"

TriggerErrorMessage == "create_ingestion failed"

\* str(NameError) for the first helper name con.py looks up
UndefinedNameMessage == "name 'modify_dataset_sql_for_single_day' is not defined"

SuccessOutcome(v, d, order, id, revert_success, started) ==
    CASE v = "dailycron" ->
            [dataset_id |-> d, target_date |-> yyyymmdd,
             rolling_window_days |-> RollingWindowDays(d), ingestion_id |-> id,
             sql_modified |-> TRUE, sql_reverted |-> revert_success,
             status |-> "success", processing_order |-> order]
      [] v = "fixed" ->
            [dataset_id |-> d, target_date |-> yyyymmdd,
             rolling_window_days |-> RollingWindowDays(d), ingestion_id |-> id,
             status |-> "success", order |-> order]
      [] OTHER ->
            [dataset_id |-> d, target_date |-> yyyymmdd,
             rolling_window_days |-> RollingWindowDays(d), ingestion_id |-> id,
             sql_modified |-> TRUE, sql_reverted |-> revert_success,
             refresh_started |-> (started = "True"), status |-> "success",
             processing_order |-> order, thread_id |-> order]

FailedOutcome(v, d, order, msg) ==
    CASE v = "dailycron" ->
            [dataset_id |-> d, rolling_window_days |-> RollingWindowDays(d),
             status |-> "failed", error |-> msg, processing_order |-> order]
      [] v = "fixed" ->
            [dataset_id |-> d, status |-> "failed", error |-> msg,
             order |-> order]
      [] OTHER ->
            [dataset_id |-> d, status |-> "failed", error |-> msg,
             processing_order |-> order, thread_id |-> order]

\* variant of ProcessingOrder: enumerate(DATASETS) counting from 0
ProcessingOrder_zero(i) == i - 1

\* variant of ProcessingOrder: the workers take the ordering index from a
\* counter they share instead of their own argument
ProcessingOrder_shared(i) == idx

\* enumerate(DATASETS, 1): the ordering index of the dataset at loop index i
ProcessingOrder(i) == i

\* variant of StatusCode: a partial failure turns the run into an error
StatusCode_partial(nfailed) == IF nfailed > 0 THEN 500 ELSE 200

\* status code of the response built after the loop
StatusCode(nfailed) == 200

\* variant of NextIndex: the first failure ends the loop
NextIndex_abort(i, ok) == IF ok THEN i + 1 ELSE NumDatasets + 1

\* variant of NextIndex: a failed dataset is tried again
NextIndex_retry(i, ok) == IF ok THEN i + 1 ELSE i

\* the loop goes on with the next dataset whatever the outcome was
NextIndex(i, ok) == i + 1

ResponseOf(v, date, rs, nsucc, nfail) ==
    IF v = "dailycron"
    THEN [statusCode |-> StatusCode(nfail),
          body |-> [target_date |-> date, datasets_processed |-> NumDatasets,
                    summary |-> [total_datasets |-> NumDatasets,
                                 successful_refreshes |-> nsucc,
                                 failed_refreshes |-> nfail],
                    detailed_results |-> rs]]
    ELSE [statusCode |-> StatusCode(nfail),
          body |-> [target_date |-> date, total_datasets |-> NumDatasets,
                    successful |-> nsucc, failed |-> nfail, results |-> rs]]

(***************************************************************************)
(* State machine                                                           *)
(***************************************************************************)
Handlers == {"dailycron", "fixed"}

\* no waiter is run on its own
WaiterIdle ==
    /\ waiter = "none" /\ timeout_seconds = 0
    /\ now = 0 /\ polls = 0 /\ poll_at = -1 /\ waiter_at = "check"
    /\ ingestion_status = "NONE" /\ observed = {}
    /\ result = NoResult

\* no rewriter is run on its own
RewriterIdle ==
    /\ rewriter = "none" /\ input = <<>> /\ query = <<>> /\ window = 0
    /\ applied = <<>> /\ count = -1

NoDate == [ordinal |-> 0, hour |-> 0]

NotFormatted == 0

\* no target-date computation is run on its own
DateIdle ==
    /\ today = NoDate /\ target_date = NoDate /\ formatted = NotFormatted

\* the statements of lambda_handler before the loop, in program order;
\* process_single_dataset_with_wait is called with the loop already running
EntryStages(v) ==
    CASE v = "dailycron" -> <<"client", "account", "date", "loop">>
      [] v = "fixed"     -> <<"account", "client", "date", "loop">>
      [] OTHER           -> <<"loop">>

FirstStage(v) == EntryStages(v)[1]

NextStage(v, s) ==
    LET i == CHOOSE j \in 1..Len(EntryStages(v)) : EntryStages(v)[j] = s
    IN  EntryStages(v)[i + 1]

\* the statement lies inside the try block of lambda_handler, which opens
\* after the client and the account id have been obtained
InsideTry(v, s) == s \in {"date", "loop"}

\* get_account_id of fixed.py catches its own errors and returns None
CaughtByCallee(v, s) == v = "fixed" /\ s = "account"

\* the response of the top-level except block
ErrorResponse(v, msg, date) ==
    IF v = "dailycron"
    THEN [statusCode |-> 500, body |-> [error |-> msg, target_date |-> date]]
    ELSE [statusCode |-> 500, body |-> [error |-> msg]]

\* con.py calls modify_dataset_sql_for_single_day, trigger_incremental_refresh
\* and revert_dataset_sql_to_rolling_window without defining or importing
\* them: they are names of its globals, bound by whoever loads it
HelperBindings(v) ==
    IF v = "con" THEN {"dailycron", "undefined"} ELSE {"own"}

\* time a describe_ingestion call takes in a run; only con.py polls
PollTimes(v) == IF v = "con" THEN PollDurations ELSE {0}

\* the first statement of the processing of a dataset:
\* process_single_dataset_with_wait opens with boto3.client
FirstStep(v) == IF v = "con" THEN "client" ELSE "narrow"

Init ==
    /\ variant \in Variants
    /\ helpers \in HelperBindings(variant)
    /\ poll_seconds \in PollTimes(variant)
    /\ yyyymmdd \in TargetDates
    /\ \E k \in RecordOffsets :
          tables = [d \in Datasets |->
                        InitialRecords(d)[((d + k) % NumRecords) + 1]]
    /\ original = tables
    /\ job = [d \in Datasets |-> "NONE"]
    /\ jobRead = [d \in Datasets |-> "none"]
    /\ idx = 1
    /\ pc = [d \in Datasets |-> FirstStep(variant)]
    /\ ingestion_id = [d \in Datasets |-> NoId]
    /\ wait_success = [d \in Datasets |-> "unset"]
    /\ elapsed = [d \in Datasets |-> 0]
    /\ fault = [d \in Datasets |-> "none"]
    /\ calls = [d \in Datasets |-> <<>>]
    /\ results = <<>>
    /\ successful = 0
    /\ failed = 0
    /\ response = NoResponse
    /\ entry = FirstStage(variant)
    /\ raised = "none"
    /\ WaiterIdle
    /\ RewriterIdle
    /\ DateIdle

\* variant of Record: the list of outcomes is rebuilt around the new one,
\* earlier outcomes are marked as superseded
Record_rewrite(d, outcome, ok) ==
    /\ results' = Append([i \in 1..Len(results) |->
                             [results[i] EXCEPT !.status = "superseded"]],
                         outcome)
    /\ successful' = IF ok /\ variant \in Handlers THEN successful + 1 ELSE successful
    /\ failed' = IF ~ok /\ variant \in Handlers THEN failed + 1 ELSE failed
    /\ idx' = idx + 1
    /\ pc' = [pc EXCEPT ![d] = "done"]

\* the outcome is appended (handlers) or returned to the caller (con.py),
\* the counters are the handlers', and the loop moves on
Record(d, outcome, ok) ==
    /\ results' = Append(results, outcome)
    /\ successful' = IF ok /\ variant \in Handlers THEN successful + 1 ELSE successful
    /\ failed' = IF ~ok /\ variant \in Handlers THEN failed + 1 ELSE failed
    /\ idx' = NextIndex(idx, ok)
    /\ pc' = [pc EXCEPT ![d] = IF NextIndex(idx, ok) = idx
                               THEN FirstStep(variant) ELSE "done"]

\* where the coordinator goes once the trigger has returned its response
AfterTrigger(v) ==
    CASE v = "dailycron" -> "sleep"
      [] v = "fixed"     -> "revert"
      [] OTHER           -> "wait"

\* variant of AfterWait: a timed-out wait fails the dataset
AfterWait_abort(ws) == IF ws = "True" THEN "revert" ELSE "waitfail"

\* where process_single_dataset_with_wait goes once the waiter has returned
AfterWait(ws) == "revert"

\* one statement s of lambda_handler before the loop returns, or raises:
\* an error raised inside the try block becomes the response of the
\* top-level except block, one raised before it leaves lambda_handler
EntryStatement(s, raises) ==
    /\ CASE ~raises \/ CaughtByCallee(variant, s) ->
                /\ entry' = NextStage(variant, s)
                /\ UNCHANGED <<raised, response>>
           [] raises /\ ~CaughtByCallee(variant, s) /\ InsideTry(variant, s) ->
                /\ entry' = "returned"
                /\ raised' = s
                /\ response' = ErrorResponse(variant, s, "unknown")
           [] OTHER ->
                /\ entry' = "escaped"
                /\ raised' = s
                /\ UNCHANGED response
    /\ UNCHANGED <<helperVars, variant, helpers, original, yyyymmdd, tables, job, jobRead, idx, pc,
                   ingestion_id, wait_success, elapsed, fault, calls, results,
                   successful, failed>>

\* quicksight = boto3.client('quicksight', region_name='us-east-1')
CreateClient ==
    /\ entry = "client"
    /\ \E raises \in BOOLEAN : EntryStatement("client", raises)

\* AWS_ACCOUNT_ID from context.invoked_function_arn
GetAccountId ==
    /\ entry = "account"
    /\ \E raises \in BOOLEAN : EntryStatement("account", raises)

\* target_date = get_previous_business_day() / get_previous_day()
ComputeTargetDate ==
    /\ entry = "date"
    /\ \E raises \in BOOLEAN : EntryStatement("date", raises)

\* con.py: quicksight = boto3.client('quicksight', ...), the first statement
\* of process_single_dataset_with_wait and outside its try block: when it
\* raises, the error leaves the function and no outcome is returned
ClientStep(d) ==
    /\ entry = "loop"
    /\ pc[d] = "client"
    /\ \E raises \in BOOLEAN :
         IF raises
         THEN /\ pc' = [pc EXCEPT ![d] = "escaped"]
              /\ fault' = [fault EXCEPT ![d] = "client"]
         ELSE /\ pc' = [pc EXCEPT ![d] = "narrow"]
              /\ UNCHANGED fault
    /\ UNCHANGED <<helperVars, entry, raised, variant, helpers, original, yyyymmdd, tables, job, jobRead, idx,
                   ingestion_id, wait_success, elapsed, calls, results,
                   successful, failed, response>>

\* Step 1, con.py as it stands: the call of the narrow helper raises
\* NameError inside the try block; no remote call is made
NarrowUndefinedStep(d) ==
    /\ entry = "loop"
    /\ pc[d] = "narrow"
    /\ helpers = "undefined"
    /\ fault' = [fault EXCEPT ![d] = "narrow_undefined"]
    /\ Record(d, FailedOutcome(variant, d, ProcessingOrder(d), UndefinedNameMessage), FALSE)
    /\ UNCHANGED <<helperVars, entry, raised, variant, helpers, original, yyyymmdd, tables, job, jobRead, ingestion_id,
                   wait_success, elapsed, calls, response>>

\* Step 1, first remote call of the narrow helper: describe_data_set. When
\* it raises, or the map has no table with a CustomSql entry, the helper
\* returns None and the coordinator records the failure
NarrowDescribeStep(d) ==
    /\ entry = "loop"
    /\ pc[d] = "narrow"
    /\ helpers # "undefined"
    /\ \E f \in NarrowFaults \ {"narrow_update"} :
        LET map == tables[d] IN
        /\ calls' = [calls EXCEPT ![d] = Append(@, DescribeDataSet("narrow"))]
        /\ IF f = "none" /\ FirstCustom(map) # 0
           THEN /\ pc' = [pc EXCEPT ![d] = "narrow_update"]
                /\ UNCHANGED <<fault, results, successful, failed, idx>>
           ELSE /\ fault' = [fault EXCEPT ![d] = ModifyFailure(variant, map, f)]
                /\ Record(d, FailedOutcome(variant, d, ProcessingOrder(d), NarrowErrorMessage(variant)), FALSE)
    /\ UNCHANGED <<helperVars, entry, raised, variant, helpers, original, yyyymmdd, tables, job, jobRead, ingestion_id,
                   wait_success, elapsed, response>>

\* Step 1, second remote call of the narrow helper: update_data_set with
\* the rewritten first CustomSql table of the map it described (only this
\* step writes the dataset's record, so the map is still the one described),
\* then the coordinator's test of the value the helper returns
NarrowUpdateStep(d) ==
    /\ pc[d] = "narrow_update"
    /\ \E f \in NarrowFaults \ {"narrow_describe"} :
        LET map == tables[d] IN
        /\ calls' = [calls EXCEPT ![d] = Append(@, UpdateDataSet("narrow"))]
        /\ tables' = IF ModifyCommits(map, f)
                     THEN [tables EXCEPT ![d] = ModifiedMap(variant, map, yyyymmdd)]
                     ELSE tables
        /\ fault' = [fault EXCEPT ![d] = ModifyFailure(variant, map, f)]
        /\ IF ModifyReturnsTruthy(variant, map, f)
           THEN /\ pc' = [pc EXCEPT ![d] = "trigger"]
                /\ UNCHANGED <<results, successful, failed, idx>>
           ELSE Record(d, FailedOutcome(variant, d, ProcessingOrder(d), NarrowErrorMessage(variant)), FALSE)
    /\ UNCHANGED <<helperVars, entry, raised, variant, helpers, original, yyyymmdd, job, jobRead, ingestion_id, wait_success,
                   elapsed, response>>

\* Step 2: submit the incremental refresh
TriggerStep(d) ==
    /\ pc[d] = "trigger"
    /\ calls' = [calls EXCEPT ![d] = Append(@, CreateIngestion(NewIngestionId(yyyymmdd)))]
    /\ \/ /\ job' = [job EXCEPT ![d] = "CREATED"]
          /\ ingestion_id' = [ingestion_id EXCEPT ![d] = NewIngestionId(yyyymmdd)]
          /\ pc' = [pc EXCEPT ![d] = AfterTrigger(variant)]
          /\ UNCHANGED <<fault, results, successful, failed, idx>>
       \/ /\ fault' = [fault EXCEPT ![d] = "trigger"]
          /\ Record(d, FailedOutcome(variant, d, ProcessingOrder(d), TriggerErrorMessage), FALSE)
          /\ UNCHANGED <<job, ingestion_id>>
    /\ UNCHANGED <<helperVars, entry, raised, variant, helpers, original, yyyymmdd, tables, jobRead, wait_success, elapsed, response>>

\* dailycron.py Step 3: time.sleep(2)
Sleep(d) ==
    /\ idx = d /\ pc[d] = "sleep"
    /\ pc' = [pc EXCEPT ![d] = "revert"]
    /\ UNCHANGED <<helperVars, entry, raised, variant, helpers, original, yyyymmdd, tables, job, jobRead, idx, ingestion_id,
                   wait_success, elapsed, fault, calls, results, successful,
                   failed, response>>

\* con.py wait_for_refresh_to_start: the loop condition holds and
\* describe_ingestion is called; the clock advances by the time the call
\* takes. elapsed is time.time() - start_time of the running waiter; it is
\* 0 while no waiter runs for the dataset
WaitPollStep(d) ==
    /\ pc[d] = "wait"
    /\ elapsed[d] < WaitTimeoutSeconds
    /\ calls' = [calls EXCEPT ![d] = LogPoll(@, PollHandle(ingestion_id[d]))]
    /\ \E raises \in BOOLEAN :
         LET r == IF raises THEN "error" ELSE job[d] IN
         IF StartWaiterReturns(r).returned
         THEN /\ wait_success' = [wait_success EXCEPT ![d] = "True"]
              /\ pc' = [pc EXCEPT ![d] = AfterWait("True")]
              /\ elapsed' = [elapsed EXCEPT ![d] = 0]
         ELSE /\ elapsed' = [elapsed EXCEPT ![d] = @ + poll_seconds]
              /\ pc' = [pc EXCEPT ![d] = IF StartWaiterSleeps(r) > 0
                                         THEN "wait_sleep" ELSE "wait"]
              /\ UNCHANGED wait_success
    /\ UNCHANGED <<helperVars, entry, raised, variant, helpers, original, yyyymmdd, tables, job, jobRead, idx, ingestion_id,
                   fault, results, successful, failed, response>>

\* con.py wait_for_refresh_to_start: time.sleep(check_interval) after a
\* poll that did not return
WaitSleepStep(d) ==
    /\ pc[d] = "wait_sleep"
    /\ elapsed' = [elapsed EXCEPT ![d] = @ + StartCheckInterval]
    /\ pc' = [pc EXCEPT ![d] = "wait"]
    /\ UNCHANGED <<helperVars, entry, raised, variant, helpers, original, yyyymmdd, tables, job, jobRead, idx, ingestion_id,
                   wait_success, fault, calls, results, successful, failed,
                   response>>

\* con.py wait_for_refresh_to_start: the loop condition fails, return False
WaitTimeoutStep(d) ==
    /\ pc[d] = "wait"
    /\ elapsed[d] >= WaitTimeoutSeconds
    /\ wait_success' = [wait_success EXCEPT ![d] = "False"]
    /\ pc' = [pc EXCEPT ![d] = AfterWait("False")]
    /\ elapsed' = [elapsed EXCEPT ![d] = 0]
    /\ UNCHANGED <<helperVars, entry, raised, variant, helpers, original, yyyymmdd, tables, job, jobRead, idx, ingestion_id,
                   fault, calls, results, successful, failed, response>>

\* Step 4, first remote call of the revert helper: describe_data_set. When
\* it raises (or no table has a CustomSql entry) the helper returns False
\* and the success outcome is recorded
RevertDescribeStep(d) ==
    /\ pc[d] = "revert"
    /\ \E f \in RevertFaults \ {"revert_update"} :
        LET map == tables[d] IN
        /\ calls' = [calls EXCEPT ![d] = Append(@, DescribeDataSet("revert"))]
        /\ IF f = "none" /\ FirstCustom(map) # 0
           THEN /\ pc' = [pc EXCEPT ![d] = "revert_update"]
                /\ UNCHANGED <<fault, results, successful, failed, idx>>
           ELSE /\ fault' = [fault EXCEPT ![d] = f]
                /\ Record(d, SuccessOutcome(variant, d, ProcessingOrder(d), ingestion_id[d],
                                            RevertReturns(map, f), wait_success[d]), TRUE)
    /\ UNCHANGED <<helperVars, entry, raised, variant, helpers, original, yyyymmdd, tables, job, jobRead, ingestion_id,
                   wait_success, elapsed, response>>

\* Step 4, second remote call of the revert helper: update_data_set with
\* the widened first CustomSql table, then the success outcome is recorded
RevertUpdateStep(d) ==
    /\ pc[d] = "revert_update"
    /\ \E f \in RevertFaults \ {"revert_describe"} :
        LET map == tables[d]
            revert_success == RevertReturns(map, f) IN
        /\ calls' = [calls EXCEPT ![d] = Append(@, UpdateDataSet("revert"))]
        /\ tables' = IF f = "none"
                     THEN [tables EXCEPT ![d] =
                              RevertedMap(variant, map, RollingWindowDays(d))]
                     ELSE tables
        /\ fault' = [fault EXCEPT ![d] = f]
        /\ Record(d, SuccessOutcome(variant, d, ProcessingOrder(d), ingestion_id[d],
                                    revert_success, wait_success[d]), TRUE)
    /\ UNCHANGED <<helperVars, entry, raised, variant, helpers, original, yyyymmdd, job, jobRead, ingestion_id, wait_success,
                   elapsed, response>>

\* the sequential loop runs the steps of the dataset at the loop index
Client(d) == idx = d /\ ClientStep(d)

NarrowUndefined(d) == idx = d /\ NarrowUndefinedStep(d)

NarrowDescribe(d) == idx = d /\ NarrowDescribeStep(d)

NarrowUpdate(d) == idx = d /\ NarrowUpdateStep(d)

Trigger(d) == idx = d /\ TriggerStep(d)

WaitPoll(d) == idx = d /\ WaitPollStep(d)

WaitSleep(d) == idx = d /\ WaitSleepStep(d)

WaitTimeout(d) == idx = d /\ WaitTimeoutStep(d)

RevertDescribe(d) == idx = d /\ RevertDescribeStep(d)

RevertUpdate(d) == idx = d /\ RevertUpdateStep(d)

\* after the loop the handler builds its response
Finish ==
    /\ variant \in Handlers
    /\ idx > NumDatasets
    /\ response = NoResponse
    /\ response' = ResponseOf(variant, yyyymmdd, results, successful, failed)
    /\ UNCHANGED <<helperVars, entry, raised, variant, helpers, original, yyyymmdd, tables, job, jobRead, idx, pc, ingestion_id,
                   wait_success, elapsed, fault, calls, results, successful, failed>>

\* the widen update of dataset d went through
WidenCommitted(d) == pc[d] = "done" /\ fault[d] = "none"

\* the remote ingestion moves on by itself; it reads the dataset's query
\* when it starts running
RemoteJobStep(d) ==
    /\ \E s \in JobSuccessors(job[d]) :
        /\ job' = [job EXCEPT ![d] = s]
        /\ jobRead' = IF s = "RUNNING"
                      THEN [jobRead EXCEPT ![d] =
                              IF WidenCommitted(d) THEN "reverted" ELSE "narrowed"]
                      ELSE jobRead
    /\ UNCHANGED <<helperVars, entry, raised, variant, helpers, original, yyyymmdd, tables, idx, pc, ingestion_id, wait_success,
                   elapsed, fault, calls, results, successful, failed, response>>

Next ==
    \/ CreateClient
    \/ GetAccountId
    \/ ComputeTargetDate
    \/ \E d \in Datasets : Client(d)
    \/ \E d \in Datasets : NarrowUndefined(d)
    \/ \E d \in Datasets : NarrowDescribe(d)
    \/ \E d \in Datasets : NarrowUpdate(d)
    \/ \E d \in Datasets : Trigger(d)
    \/ \E d \in Datasets : Sleep(d)
    \/ \E d \in Datasets : WaitPoll(d)
    \/ \E d \in Datasets : WaitSleep(d)
    \/ \E d \in Datasets : WaitTimeout(d)
    \/ \E d \in Datasets : RevertDescribe(d)
    \/ \E d \in Datasets : RevertUpdate(d)
    \/ \E d \in Datasets : RemoteJobStep(d)
    \/ Finish

Spec == Init /\ [][Next]_vars

(***************************************************************************)
(* The bounded worker pool: process_single_dataset_with_wait runs in       *)
(* several workers at once, each on a dataset of its own                   *)
(***************************************************************************)
\* number of concurrent workers of the pool
PoolSize == 2

\* the datasets a worker is processing
Running == {d \in Datasets : pc[d] \notin {"queued", "done", "escaped"}}

\* the pool hands out the datasets in configuration order, to a free worker
PoolAdmits(d) ==
    /\ pc[d] = "queued"
    /\ \A e \in 1..(d - 1) : pc[e] # "queued"
    /\ Cardinality(Running) < PoolSize

\* the assignments of initial records the pool is run on: the rolling
\* windows of both shapes first, or a rolling window next to a dataset
\* without custom-SQL table
PoolRecordOffsets == {NumRecords - 1, 0}

ParallelInit ==
    /\ variant = "con"
    /\ helpers \in HelperBindings(variant)
    /\ poll_seconds \in PollTimes(variant)
    /\ yyyymmdd \in TargetDates
    /\ \E k \in PoolRecordOffsets :
          tables = [d \in Datasets |->
                        InitialRecords(d)[((d + k) % NumRecords) + 1]]
    /\ original = tables
    /\ job = [d \in Datasets |-> "NONE"]
    /\ jobRead = [d \in Datasets |-> "none"]
    /\ idx = 1
    /\ pc = [d \in Datasets |-> "queued"]
    /\ ingestion_id = [d \in Datasets |-> NoId]
    /\ wait_success = [d \in Datasets |-> "unset"]
    /\ elapsed = [d \in Datasets |-> 0]
    /\ fault = [d \in Datasets |-> "none"]
    /\ calls = [d \in Datasets |-> <<>>]
    /\ results = <<>>
    /\ successful = 0
    /\ failed = 0
    /\ response = NoResponse
    /\ entry = "loop"
    /\ raised = "none"
    /\ WaiterIdle
    /\ RewriterIdle
    /\ DateIdle

\* a free worker takes the next dataset and enters
\* process_single_dataset_with_wait for it: it stands at the call of
\* boto3.client, which returns in a step of its own (ClientStep)
WorkerStart(d) ==
    /\ entry = "loop"
    /\ PoolAdmits(d)
    /\ pc' = [pc EXCEPT ![d] = FirstStep(variant)]
    /\ UNCHANGED <<helperVars, entry, raised, variant, helpers, original, yyyymmdd, tables, job, jobRead, idx,
                   ingestion_id, wait_success, elapsed, fault, calls, results,
                   successful, failed, response>>

\* the workers run their steps in any interleaving
ParallelNext ==
    \/ \E d \in Datasets : WorkerStart(d)
    \/ \E d \in Datasets : ClientStep(d)
    \/ \E d \in Datasets : NarrowUndefinedStep(d)
    \/ \E d \in Datasets : NarrowDescribeStep(d)
    \/ \E d \in Datasets : NarrowUpdateStep(d)
    \/ \E d \in Datasets : TriggerStep(d)
    \/ \E d \in Datasets : WaitPollStep(d)
    \/ \E d \in Datasets : WaitSleepStep(d)
    \/ \E d \in Datasets : WaitTimeoutStep(d)
    \/ \E d \in Datasets : RevertDescribeStep(d)
    \/ \E d \in Datasets : RevertUpdateStep(d)
    \/ \E d \in Datasets : RemoteJobStep(d)

ParallelSpec == ParallelInit /\ [][ParallelNext]_vars

(***************************************************************************)
(* The dataset helpers of cron2.py called on their own, in any order:      *)
(* modify_dataset_sql_multiple_where and revert_dataset_sql_multiple_where *)
(***************************************************************************)
\* calls of the two helpers followed for one dataset
MaxHelperCalls == 2

\* what a helper returned for dataset d: original_sql or None (modify),
\* True or False (revert)
HelperReturn(d, fn, ok, sql) ==
    [dataset_id |-> d, function |-> fn, truthy |-> ok /\ (fn = "revert" \/ sql # <<>>),
     is_none |-> ~ok /\ fn = "modify", sql |-> IF ok /\ fn = "modify" THEN sql ELSE <<>>]

HelperInit ==
    /\ variant = "cron2"
    /\ helpers = "own"
    /\ yyyymmdd \in TargetDates
    /\ \E k \in 0..(NumRecords - 1) :
          tables = [d \in Datasets |->
                        InitialRecords(d)[((d + k) % NumRecords) + 1]]
    /\ original = tables
    /\ job = [d \in Datasets |-> "NONE"]
    /\ jobRead = [d \in Datasets |-> "none"]
    /\ idx = 1
    /\ pc = [d \in Datasets |-> "idle"]
    /\ ingestion_id = [d \in Datasets |-> NoId]
    /\ wait_success = [d \in Datasets |-> "unset"]
    /\ elapsed = [d \in Datasets |-> 0]
    /\ fault = [d \in Datasets |-> "none"]
    /\ calls = [d \in Datasets |-> <<>>]
    /\ results = <<>>
    /\ successful = 0
    /\ failed = 0
    /\ response = NoResponse
    /\ entry = "loop"
    /\ raised = "none"
    /\ poll_seconds = 0
    /\ WaiterIdle
    /\ RewriterIdle
    /\ DateIdle

HelperCallable(d) ==
    /\ pc[d] = "idle"
    /\ Cardinality({i \in 1..Len(results) : results[i].dataset_id = d}) < MaxHelperCalls

\* modify_dataset_sql_multiple_where: describe_data_set; None when it
\* raises or no table has a CustomSql entry
ModifyMultipleWhereDescribe(d) ==
    /\ HelperCallable(d)
    /\ \E f \in NarrowFaults \ {"narrow_update"} :
        LET map == tables[d] IN
        /\ calls' = [calls EXCEPT ![d] = Append(@, DescribeDataSet("narrow"))]
        /\ IF f = "none" /\ FirstCustom(map) # 0
           THEN /\ pc' = [pc EXCEPT ![d] = "modify_update"]
                /\ UNCHANGED <<fault, results>>
           ELSE /\ fault' = [fault EXCEPT ![d] = ModifyFailure(variant, map, f)]
                /\ results' = Append(results, HelperReturn(d, "modify", FALSE, <<>>))
                /\ UNCHANGED pc
    /\ UNCHANGED <<helperVars, entry, raised, variant, helpers, original, yyyymmdd,
                   tables, job, jobRead, idx, ingestion_id, wait_success,
                   elapsed, successful, failed, response>>

\* modify_dataset_sql_multiple_where: update_data_set with the first
\* CustomSql table rewritten by replace_all_yyyymmdd_filters; it returns
\* the original text, None when the update raises
ModifyMultipleWhereUpdate(d) ==
    /\ pc[d] = "modify_update"
    /\ \E f \in NarrowFaults \ {"narrow_describe"} :
        LET map == tables[d] IN
        /\ calls' = [calls EXCEPT ![d] = Append(@, UpdateDataSet("narrow"))]
        /\ tables' = IF ModifyCommits(map, f)
                     THEN [tables EXCEPT ![d] = ModifiedMap(variant, map, yyyymmdd)]
                     ELSE tables
        /\ fault' = [fault EXCEPT ![d] = ModifyFailure(variant, map, f)]
        /\ results' = Append(results, HelperReturn(d, "modify", ModifyCommits(map, f),
                                                   map[FirstCustom(map)].sql))
        /\ pc' = [pc EXCEPT ![d] = "idle"]
    /\ UNCHANGED <<helperVars, entry, raised, variant, helpers, original, yyyymmdd,
                   job, jobRead, idx, ingestion_id, wait_success, elapsed,
                   successful, failed, response>>

\* revert_dataset_sql_multiple_where: describe_data_set; False when it
\* raises or no table has a CustomSql entry
RevertMultipleWhereDescribe(d) ==
    /\ HelperCallable(d)
    /\ \E f \in RevertFaults \ {"revert_update"} :
        LET map == tables[d] IN
        /\ calls' = [calls EXCEPT ![d] = Append(@, DescribeDataSet("revert"))]
        /\ IF f = "none" /\ FirstCustom(map) # 0
           THEN /\ pc' = [pc EXCEPT ![d] = "revert_update"]
                /\ UNCHANGED <<fault, results>>
           ELSE /\ fault' = [fault EXCEPT ![d] =
                                IF f = "none" THEN "revert_notable" ELSE f]
                /\ results' = Append(results, HelperReturn(d, "revert",
                                                           RevertReturns(map, f), <<>>))
                /\ UNCHANGED pc
    /\ UNCHANGED <<helperVars, entry, raised, variant, helpers, original, yyyymmdd,
                   tables, job, jobRead, idx, ingestion_id, wait_success,
                   elapsed, successful, failed, response>>

\* revert_dataset_sql_multiple_where: update_data_set with the first
\* CustomSql table rewritten by revert_all_yyyymmdd_filters; True, or
\* False when the update raises
RevertMultipleWhereUpdate(d) ==
    /\ pc[d] = "revert_update"
    /\ \E f \in RevertFaults \ {"revert_describe"} :
        LET map == tables[d] IN
        /\ calls' = [calls EXCEPT ![d] = Append(@, UpdateDataSet("revert"))]
        /\ tables' = IF f = "none"
                     THEN [tables EXCEPT ![d] =
                              RevertedMap(variant, map, RollingWindowDays(d))]
                     ELSE tables
        /\ fault' = [fault EXCEPT ![d] = f]
        /\ results' = Append(results, HelperReturn(d, "revert",
                                                   RevertReturns(map, f), <<>>))
        /\ pc' = [pc EXCEPT ![d] = "idle"]
    /\ UNCHANGED <<helperVars, entry, raised, variant, helpers, original, yyyymmdd,
                   job, jobRead, idx, ingestion_id, wait_success, elapsed,
                   successful, failed, response>>

HelperNext ==
    \/ \E d \in Datasets : ModifyMultipleWhereDescribe(d)
    \/ \E d \in Datasets : ModifyMultipleWhereUpdate(d)
    \/ \E d \in Datasets : RevertMultipleWhereDescribe(d)
    \/ \E d \in Datasets : RevertMultipleWhereUpdate(d)

HelperSpec == HelperInit /\ [][HelperNext]_vars

(***************************************************************************)
(* The waiters of con.py run on their own: any timeout, any poll results   *)
(***************************************************************************)
Waiters == {"start", "completion"}

\* process_single_dataset_with_wait has narrowed the first dataset and
\* submitted its refresh, and now calls the waiter
CoordinatorAtWait ==
    /\ variant = "con"
    /\ helpers = "dailycron"
    /\ yyyymmdd \in TargetDates
    /\ tables = [d \in Datasets |->
                    IF d = 1 THEN ModifiedMap("con", InitialRecords(d)[1], yyyymmdd)
                    ELSE InitialRecords(d)[1]]
    /\ original = [d \in Datasets |-> InitialRecords(d)[1]]
    /\ job = [d \in Datasets |-> IF d = 1 THEN "CREATED" ELSE "NONE"]
    /\ jobRead = [d \in Datasets |-> "none"]
    /\ idx = 1
    /\ pc = [d \in Datasets |-> IF d = 1 THEN "wait" ELSE "client"]
    /\ ingestion_id = [d \in Datasets |->
                          IF d = 1 THEN NewIngestionId(yyyymmdd) ELSE NoId]
    /\ wait_success = [d \in Datasets |-> "unset"]
    /\ elapsed = [d \in Datasets |-> 0]
    /\ fault = [d \in Datasets |-> "none"]
    /\ calls = [d \in Datasets |->
                   IF d = 1
                   THEN ModifyCalls(InitialRecords(d)[1], "none")
                            \o <<CreateIngestion(NewIngestionId(yyyymmdd))>>
                   ELSE <<>>]
    /\ results = <<>>
    /\ successful = 0
    /\ failed = 0
    /\ response = NoResponse
    /\ entry = "loop"
    /\ raised = "none"

WaiterInit ==
    /\ CoordinatorAtWait
    /\ RewriterIdle
    /\ DateIdle
    /\ waiter \in Waiters
    /\ timeout_seconds \in Timeouts
    /\ poll_seconds \in PollDurations
    /\ now = 0
    /\ polls = 0
    /\ poll_at = -1
    /\ waiter_at = "check"
    /\ ingestion_status = "NONE"
    /\ observed = {}
    /\ result = NoResult

\* the value res goes back to the caller: process_single_dataset_with_wait
\* stores the start waiter's value in wait_success and goes on
ReturnToCaller(res) ==
    IF waiter = "start" /\ res.returned
    THEN /\ wait_success' = [wait_success EXCEPT ![1] =
                                 IF res.value THEN "True" ELSE "False"]
         /\ pc' = [pc EXCEPT ![1] = AfterWait(IF res.value THEN "True" ELSE "False")]
    ELSE UNCHANGED <<wait_success, pc>>

\* the loop condition holds and describe_ingestion is called: the poll,
\* its result, and the return or the way to the sleep
WaiterPoll ==
    /\ waiter \in Waiters /\ ~result.returned
    /\ waiter_at = "check"
    /\ now < timeout_seconds
    /\ polls < MaxPolls
    /\ \E r \in PollResults :
         LET res == WaiterReturns(waiter, r) IN
         /\ ingestion_status' = r
         /\ observed' = observed \cup {r}
         /\ polls' = polls + 1
         /\ poll_at' = now
         /\ result' = res
         /\ now' = now + poll_seconds
         /\ waiter_at' = IF ~res.returned /\ WaiterSleeps(waiter, r) > 0
                         THEN "sleep" ELSE "check"
         /\ ReturnToCaller(res)
    /\ calls' = [calls EXCEPT ![1] = LogPoll(@, PollHandle(ingestion_id[1]))]
    /\ UNCHANGED <<rewriterVars, dateVars, waiter, timeout_seconds, poll_seconds, variant, helpers, original,
                   yyyymmdd, tables, job, jobRead, idx, ingestion_id, elapsed,
                   fault, results, successful, failed, response, entry, raised>>

\* time.sleep(check_interval) after a poll that did not return
WaiterSleep ==
    /\ waiter \in Waiters /\ ~result.returned
    /\ waiter_at = "sleep"
    /\ now' = now + WaiterSleeps(waiter, ingestion_status)
    /\ waiter_at' = "check"
    /\ UNCHANGED <<coordVars, rewriterVars, dateVars, waiter, timeout_seconds,
                   poll_seconds, polls, poll_at, ingestion_status, observed,
                   result>>

\* the loop condition fails: "Timeout reached"
WaiterTimeout ==
    /\ waiter \in Waiters /\ ~result.returned
    /\ waiter_at = "check"
    /\ now >= timeout_seconds
    /\ result' = WaiterTimesOut(waiter)
    /\ ReturnToCaller(WaiterTimesOut(waiter))
    /\ UNCHANGED <<rewriterVars, dateVars, waiter, timeout_seconds, poll_seconds, now, polls,
                   poll_at, waiter_at, ingestion_status, observed, variant, helpers, original, yyyymmdd,
                   tables, job, jobRead, idx, ingestion_id, elapsed, fault,
                   calls, results, successful, failed, response, entry, raised>>

\* after the start waiter process_single_dataset_with_wait goes on with
\* Step 4, the revert
WaiterNext ==
    \/ WaiterPoll
    \/ WaiterSleep
    \/ WaiterTimeout
    \/ \E d \in Datasets : RevertDescribe(d)
    \/ \E d \in Datasets : RevertUpdate(d)

WaiterSpec == WaiterInit /\ [][WaiterNext]_vars

\* the waiter's loop is sequential code: it keeps running until it returns
WaiterFairSpec == WaiterSpec /\ WF_vars(WaiterNext)

(***************************************************************************)
(* The filter rewriters run on their own: any query of the bounded space   *)
(***************************************************************************)
Rewriters == {"dailycron", "fixed", "cron2"}

Aliases == {"", "bv.", "q."}

Windows == {30, 60}

\* dates an equality predicate of the input can hold: the day before the
\* target date (left by an earlier run) and the target date itself
InputDates == {EarlierDate} \cup TargetDates

Pieces ==
    {Txt, Grp}
        \cup {Ge(a, w) : a \in Aliases, w \in Windows}
        \cup {Btw(a, w) : a \in Aliases, w \in Windows}
        \cup {Eq(a, d) : a \in Aliases, d \in InputDates}

Queries == UNION {[1..n -> Pieces] : n \in 0..MaxQueryLen}

\* no coordinator runs
CoordinatorIdle ==
    /\ variant = "con"
    /\ helpers = "dailycron"
    /\ yyyymmdd \in TargetDates
    /\ tables = [d \in Datasets |-> <<RelationalTable>>]
    /\ original = tables
    /\ job = [d \in Datasets |-> "NONE"]
    /\ jobRead = [d \in Datasets |-> "none"]
    /\ idx = 1
    /\ pc = [d \in Datasets |-> "client"]
    /\ ingestion_id = [d \in Datasets |-> NoId]
    /\ wait_success = [d \in Datasets |-> "unset"]
    /\ elapsed = [d \in Datasets |-> 0]
    /\ fault = [d \in Datasets |-> "none"]
    /\ calls = [d \in Datasets |-> <<>>]
    /\ results = <<>>
    /\ successful = 0
    /\ failed = 0
    /\ response = NoResponse
    /\ entry = "loop"
    /\ raised = "none"

RewriterInit ==
    /\ CoordinatorIdle
    /\ WaiterIdle
    /\ poll_seconds = 0
    /\ DateIdle
    /\ rewriter \in Rewriters
    /\ input \in Queries
    /\ query = input
    /\ window = 0
    /\ applied = <<>>
    /\ count = NotReported

\* the narrow rewriter of the module, on the input
ApplyNarrow ==
    /\ rewriter \in Rewriters
    /\ applied = <<>>
    /\ query' = RewriterNarrow(rewriter, query, yyyymmdd)
    /\ count' = NarrowCount(rewriter, query)
    /\ applied' = Append(applied, "narrow")
    /\ UNCHANGED <<coordVars, waiterVars, dateVars, rewriter, input, window>>

\* the widen rewriter of the module, on the input or on the narrowed text
ApplyWiden ==
    /\ rewriter \in Rewriters
    /\ applied \in {<<>>, <<"narrow">>}
    /\ \E w \in Windows :
        /\ query' = RewriterWiden(rewriter, query, w)
        /\ window' = w
    /\ count' = WidenCount(rewriter, query)
    /\ applied' = Append(applied, "widen")
    /\ UNCHANGED <<coordVars, waiterVars, dateVars, rewriter, input>>

RewriterNext == ApplyNarrow \/ ApplyWiden

RewriterSpec == RewriterInit /\ [][RewriterNext]_vars

(***************************************************************************)
(* The target-date computation run on its own: called on any day of a      *)
(* range that holds a leap day and a change of year                        *)
(***************************************************************************)
NumDays == 400

\* 2024-02-20 as a proleptic Gregorian ordinal (0001-01-01 is day 1)
FirstDay == 738936

Days == FirstDay..(FirstDay + NumDays - 1)

Hours == {0, 23}

Monday == 0

Friday == 4

Saturday == 5

Sunday == 6

\* datetime.weekday(): Monday is 0 and Sunday is 6; day 1 is a Monday
weekday(t) == (t.ordinal + 6) % 7

\* t - timedelta(days=n): the time of day is kept
MinusDays(t, n) == [t EXCEPT !.ordinal = @ - n]

\* yesterday, whatever the day of the week
get_previous_business_day_noWeekend(t) == MinusDays(t, 1)

\* get_previous_business_day with today = t
get_previous_business_day(t) ==
    IF weekday(t) = Monday THEN MinusDays(t, 3)
    ELSE IF weekday(t) = Sunday THEN MinusDays(t, 2)
    ELSE MinusDays(t, 1)

DaysInMonth == <<31, 28, 31, 30, 31, 30, 31, 31, 30, 31, 30, 31>>

DaysBeforeMonth == <<0, 31, 59, 90, 120, 151, 181, 212, 243, 273, 304, 334>>

\* year, month and day of an ordinal, in the Gregorian calendar
\* (400-year, 100-year, 4-year and 1-year cycles, as datetime computes it)
CalendarDate(o) ==
    LET n0   == o - 1
        n400 == n0 \div 146097
        r400 == n0 % 146097
        n100 == r400 \div 36524
        r100 == r400 % 36524
        n4   == r100 \div 1461
        r4   == r100 % 1461
        n1   == r4 \div 365
        n    == r4 % 365
        year == n400 * 400 + n100 * 100 + n4 * 4 + n1 + 1
        leap == n1 = 3 /\ (n4 # 24 \/ n100 = 3)
        m0   == (n + 50) \div 32
        b0   == DaysBeforeMonth[m0] + (IF m0 > 2 /\ leap THEN 1 ELSE 0)
        month == IF b0 > n THEN m0 - 1 ELSE m0
        before == IF b0 > n
                  THEN b0 - (DaysInMonth[month]
                             + (IF month = 2 /\ leap THEN 1 ELSE 0))
                  ELSE b0
    IN  IF n1 = 4 \/ n100 = 4
        THEN [year |-> year - 1, month |-> 12, day |-> 31]
        ELSE [year |-> year, month |-> month, day |-> n - before + 1]

\* t.strftime('%Y%m%d'), as the number its eight digits spell: the time of
\* day is dropped
strftime(t) ==
    LET c == CalendarDate(t.ordinal)
    IN  c.year * 10000 + c.month * 100 + c.day

DateInit ==
    /\ CoordinatorIdle
    /\ WaiterIdle
    /\ poll_seconds = 0
    /\ RewriterIdle
    /\ today \in [ordinal : Days, hour : Hours]
    /\ target_date = NoDate
    /\ formatted = NotFormatted

\* target_date = get_previous_business_day()
CallGetPreviousBusinessDay ==
    /\ today # NoDate
    /\ target_date = NoDate
    /\ target_date' = get_previous_business_day(today)
    /\ UNCHANGED <<coordVars, waiterVars, rewriterVars, today, formatted>>

\* yyyymmdd = target_date.strftime('%Y%m%d')
FormatTargetDate ==
    /\ target_date # NoDate
    /\ formatted = NotFormatted
    /\ formatted' = strftime(target_date)
    /\ UNCHANGED <<coordVars, waiterVars, rewriterVars, today, target_date>>

DateNext == CallGetPreviousBusinessDay \/ FormatTargetDate

DateSpec == DateInit /\ [][DateNext]_vars

(***************************************************************************)
(* Observers used by the properties                                        *)
(***************************************************************************)
Issued(d, c) == \E i \in 1..Len(calls[d]) : calls[d][i] = c

Count(d, c) == Cardinality({i \in 1..Len(calls[d]) : calls[d][i] = c})

StepIssued(d, step) == \E i \in 1..Len(calls[d]) : calls[d][i].step = step

OutcomesOf(d) == {i \in 1..Len(results) : results[i].dataset_id = d}

HasOutcome(d) == OutcomesOf(d) # {}

OutcomeOf(d) == results[CHOOSE i \in OutcomesOf(d) : TRUE]

NarrowFailures ==
    {"narrow_undefined", "narrow_describe", "narrow_notable", "narrow_update",
     "narrow_falsy"}

\* positions of a dataset whose reload has been submitted and whose
\* processing is not over
SubmittedSteps == {"sleep", "wait", "wait_sleep", "revert", "revert_update"}

\* positions of the widen step
RevertSteps == {"revert", "revert_update"}

\* positions before the reload submit has returned
UnsubmittedSteps == {"queued", "client", "narrow", "narrow_update", "trigger", "escaped"}

RevertFailures == {"revert_describe", "revert_update"}

\* the narrow update of dataset d went through
NarrowCommitted(d) ==
    Issued(d, UpdateDataSet("narrow")) /\ fault[d] # "narrow_update"

LoopEnded == idx > NumDatasets

\* the handler has returned the response it builds after the loop
Responded == LoopEnded /\ response # NoResponse

OrderOf(r) == IF "order" \in DOMAIN r THEN r.order ELSE r.processing_order

\* position of a remote call in the order narrow, submit, polls, widen
Rank(c) ==
    CASE c.op = "describe_data_set" /\ c.step = "narrow" -> 1
      [] c.op = "update_data_set" /\ c.step = "narrow"   -> 2
      [] c.op = "create_ingestion"                       -> 3
      [] c.op = "describe_ingestion"                     -> 4
      [] c.op = "describe_data_set" /\ c.step = "revert" -> 5
      [] OTHER                                           -> 6

(***************************************************************************)
(* Properties                                                              *)
(***************************************************************************)

\* C1: whenever the processing of a dataset has finished and its narrow
\* update was committed, the widen step was attempted for it (its describe
\* call was issued), also when the trigger raised or the waiter failed.
C1_WidenAlwaysAttempted ==
    \A d \in Datasets :
        (pc[d] = "done" /\ NarrowCommitted(d)) => StepIssued(d, "revert")

\* C2: the widen update of a dataset is never committed before the submitted
\* job has read the query, so the job reads the narrowed query under every
\* timing of the remote job.
C2_JobReadsNarrowedQuery ==
    \A d \in Datasets : WidenCommitted(d) => jobRead[d] = "narrowed"

\* C3: the remote calls of one dataset occur strictly in the order narrow
\* describe/update, submit, polls, widen describe/update; the submit follows
\* a narrow step that returned success, every poll carries the handle the
\* submit returned, and in con.py the widen is issued only after the waiter
\* has returned.
C3_StepsStrictlyOrdered ==
    \A d \in Datasets :
        /\ \A i \in 1..Len(calls[d]) : \A j \in 1..Len(calls[d]) :
              i < j => Rank(calls[d][i]) < Rank(calls[d][j])
        /\ \A i \in 1..Len(calls[d]) :
              /\ calls[d][i].op = "create_ingestion" =>
                    /\ i > 1 /\ calls[d][i - 1] = UpdateDataSet("narrow")
                    /\ NarrowCommitted(d)
              /\ calls[d][i].op = "describe_ingestion" =>
                    /\ i > 1 /\ calls[d][i - 1].op = "create_ingestion"
                    /\ ingestion_id[d] # NoId
                    /\ calls[d][i].id = ingestion_id[d]
                    /\ calls[d][i].id = calls[d][i - 1].id
              /\ (calls[d][i].step = "revert" /\ variant = "con") =>
                    /\ wait_success[d] # "unset"
                    /\ Issued(d, DescribeIngestion(ingestion_id[d]))

C3_Witness ==
    \E d \in Datasets :
        /\ variant = "con" /\ pc[d] = "done"
        /\ calls[d] = <<DescribeDataSet("narrow"), UpdateDataSet("narrow"),
                        CreateIngestion(ingestion_id[d]),
                        DescribeIngestion(ingestion_id[d]),
                        DescribeDataSet("revert"), UpdateDataSet("revert")>>

\* C4: in con.py, once the waiter has returned, whatever it returned, the
\* widen step is what comes next; after a timeout (False) the finished
\* dataset has the widen in its calls and a success outcome whose
\* refresh_started is false.
C4_WidenAfterAnyWaitResult ==
    \A d \in Datasets :
        (variant = "con" /\ wait_success[d] # "unset") =>
            /\ pc[d] \in RevertSteps \cup {"done"}
            /\ pc[d] = "done" =>
                  /\ StepIssued(d, "revert")
                  /\ HasOutcome(d)
                  /\ OutcomeOf(d).status = "success"
                  /\ OutcomeOf(d).refresh_started = (wait_success[d] = "True")

C4_Witness ==
    \E d \in Datasets :
        /\ variant = "con" /\ pc[d] = "done" /\ wait_success[d] = "False"
        /\ StepIssued(d, "revert")
        /\ OutcomeOf(d).status = "success"
        /\ OutcomeOf(d).refresh_started = FALSE

\* C5: a dataset whose narrow step failed (describe or update raised, or no
\* custom-SQL table) has a failed outcome, and no reload submit, status poll
\* or widen call is issued for it.
C5_NarrowFailureStopsDataset ==
    \A d \in Datasets :
        fault[d] \in NarrowFailures =>
            /\ pc[d] = "done"
            /\ HasOutcome(d)
            /\ OutcomeOf(d).status = "failed"
            /\ job[d] = "NONE"
            /\ ~StepIssued(d, "trigger")
            /\ ~StepIssued(d, "wait")
            /\ ~StepIssued(d, "revert")

C5_Witness ==
    /\ LoopEnded
    /\ \E d \in Datasets :
          fault[d] = "narrow_update" /\ OutcomeOf(d).status = "failed"
    /\ \E d \in Datasets :
          fault[d] = "narrow_notable" /\ OutcomeOf(d).status = "failed"

\* the calls a dataset issues when it is processed on its own, given the
\* remote call that failed for it
ExpectedCalls(v, f, id) ==
    CASE f \in {"client", "narrow_undefined"} -> <<>>
      [] f \in {"narrow_describe", "narrow_notable"} ->
            <<DescribeDataSet("narrow")>>
      [] f \in {"narrow_update", "narrow_falsy"} ->
            <<DescribeDataSet("narrow"), UpdateDataSet("narrow")>>
      [] f = "trigger" ->
            <<DescribeDataSet("narrow"), UpdateDataSet("narrow"),
              CreateIngestion(NewIngestionId(yyyymmdd))>>
      [] OTHER ->
            <<DescribeDataSet("narrow"), UpdateDataSet("narrow"), CreateIngestion(id)>>
            \o (IF v = "con" THEN <<DescribeIngestion(id)>> ELSE <<>>)
            \o (IF f = "revert_describe"
                THEN <<DescribeDataSet("revert")>>
                ELSE <<DescribeDataSet("revert"), UpdateDataSet("revert")>>)

ExpectedStatus(f) ==
    IF f \in NarrowFailures \cup {"trigger"} THEN "failed" ELSE "success"

\* C6: when the loop has ended every dataset has been processed and has one
\* outcome; a dataset whose trigger raised has a failed outcome carrying the
\* error message; and the calls issued for a dataset and the status of its
\* outcome depend on its own remote calls only, whatever failed for the
\* other datasets.
C6_FaultIsolation ==
    LoopEnded =>
        \A d \in Datasets :
            /\ pc[d] = "done"
            /\ Cardinality(OutcomesOf(d)) = 1
            /\ OutcomeOf(d).status = ExpectedStatus(fault[d])
            /\ calls[d] = ExpectedCalls(variant, fault[d], ingestion_id[d])
            /\ fault[d] = "trigger" =>
                  /\ "error" \in DOMAIN OutcomeOf(d)
                  /\ OutcomeOf(d).error = TriggerErrorMessage

C6_Witness ==
    /\ LoopEnded
    /\ \E i \in Datasets : \E j \in Datasets :
          /\ i < j
          /\ fault[i] = "trigger" /\ OutcomeOf(i).status = "failed"
          /\ fault[j] = "none" /\ OutcomeOf(j).status = "success"
          /\ Issued(j, UpdateDataSet("revert"))

\* C7: a dataset whose widen step failed (its describe or update call
\* raised) is marked failed: its outcome has status failed. The revert
\* helpers catch the error and return False, and the coordinators record
\* status success.
C7_WidenFailureMarksFailed ==
    \A d \in Datasets :
        (pc[d] = "done" /\ fault[d] \in RevertFailures) =>
            HasOutcome(d) /\ OutcomeOf(d).status = "failed"

\* C8: for every dataset the narrow describe and update, the reload submit
\* and the widen describe and update are each issued at most once and the
\* dataset gets at most one outcome; when the loop has ended every dataset
\* has been attempted exactly once.
C8_NoRetry ==
    \A d \in Datasets :
        /\ Count(d, DescribeDataSet("narrow")) <= 1
        /\ Count(d, UpdateDataSet("narrow")) <= 1
        /\ Cardinality({i \in 1..Len(calls[d]) :
                            calls[d][i].op = "create_ingestion"}) <= 1
        /\ Count(d, DescribeDataSet("revert")) <= 1
        /\ Count(d, UpdateDataSet("revert")) <= 1
        /\ Cardinality(OutcomesOf(d)) <= 1
        /\ LoopEnded =>
              /\ helpers # "undefined" => Count(d, DescribeDataSet("narrow")) = 1
              /\ Cardinality(OutcomesOf(d)) = 1

C8_Witness ==
    /\ LoopEnded
    /\ \E d \in Datasets : fault[d] = "trigger" /\ Count(d, UpdateDataSet("narrow")) = 1
    /\ \E d \in Datasets : fault[d] = "revert_update" /\ Count(d, UpdateDataSet("revert")) = 1

BodyResults ==
    IF variant = "dailycron" THEN response.body.detailed_results
    ELSE response.body.results

BodyTotal ==
    IF variant = "dailycron" THEN response.body.summary.total_datasets
    ELSE response.body.total_datasets

BodySuccessCount ==
    IF variant = "dailycron" THEN response.body.summary.successful_refreshes
    ELSE response.body.successful

BodyFailCount ==
    IF variant = "dailycron" THEN response.body.summary.failed_refreshes
    ELSE response.body.failed

\* C9: the response body holds exactly one outcome per configured dataset,
\* in configuration order, with ordering index equal to the 1-based
\* position, and successCount + failCount = totalDatasets.
C9_OneOutcomePerDataset ==
    Responded =>
        /\ Len(BodyResults) = NumDatasets
        /\ \A i \in 1..Len(BodyResults) :
              /\ BodyResults[i].dataset_id = i
              /\ OrderOf(BodyResults[i]) = i
        /\ BodyTotal = NumDatasets
        /\ BodySuccessCount + BodyFailCount = BodyTotal
        /\ BodySuccessCount =
              Cardinality({i \in 1..Len(BodyResults) : BodyResults[i].status = "success"})

C9_Witness ==
    /\ Responded
    /\ BodySuccessCount > 0 /\ BodyFailCount > 0
    /\ \A i \in 1..NumDatasets : OrderOf(BodyResults[i]) = i

FailedDatasets == {d \in Datasets : fault[d] \in NarrowFailures \cup {"trigger"}}

\* C10: whatever subset of the datasets failed in narrow or trigger, the
\* response has statusCode 200, every failed dataset's outcome has status
\* failed with a non-empty error field, and the counts are the split (one
\* failure and all others successes when only one trigger raised).
C10_StatusCode200 ==
    Responded =>
        /\ response.statusCode = 200
        /\ BodyFailCount = Cardinality(FailedDatasets)
        /\ BodySuccessCount = NumDatasets - Cardinality(FailedDatasets)
        /\ \A d \in FailedDatasets :
              \E i \in 1..Len(BodyResults) :
                  /\ BodyResults[i].dataset_id = d
                  /\ BodyResults[i].status = "failed"
                  /\ "error" \in DOMAIN BodyResults[i]
                  /\ BodyResults[i].error # ""

C10_Witness ==
    /\ Responded
    /\ response.statusCode = 200
    /\ \E d \in Datasets :
          /\ fault[d] = "trigger"
          /\ \A o \in Datasets \ {d} : fault[o] = "none"
    /\ BodySuccessCount = NumDatasets - 1
    /\ BodyFailCount = 1

C10_AllFailWitness ==
    /\ Responded
    /\ response.statusCode = 200
    /\ BodyFailCount = NumDatasets

\* C11: an error raised in the entry point outside the per-dataset loop
\* (client creation, account id, target date) never leaves the entry point:
\* the run ends with a response of statusCode 500 that has an error field.
C11_EntryErrorsBecomeResponse ==
    raised # "none" =>
        /\ entry = "returned"
        /\ response.statusCode = 500
        /\ "error" \in DOMAIN response.body

\* the waiter run on its own stands at its loop condition, or has returned
AtLoopCondition == waiter_at = "check"

\* the statuses on which the start waiter reports that the refresh started
ObservedStart == StartedSet \cup TerminalSet

\* C12: wait_for_refresh_to_start returns True exactly when a poll made
\* before the timeout gives a started or terminal status, and it returns at
\* the first such poll (no sleep after it, no such status seen while the
\* loop still runs); it returns False otherwise, and only once the elapsed
\* time has reached the timeout.
C12_StartWaiterResult ==
    waiter = "start" =>
        /\ ~result.returned => observed \cap ObservedStart = {}
        /\ result.returned => result.value \in BOOLEAN
        /\ result = Returned(TRUE) =>
              /\ ingestion_status \in ObservedStart
              /\ (observed \ {ingestion_status}) \cap ObservedStart = {}
              /\ poll_at < timeout_seconds
              /\ now = poll_at + poll_seconds
        /\ result = Returned(FALSE) =>
              /\ observed \cap ObservedStart = {}
              /\ now >= timeout_seconds

C12_Witness ==
    /\ waiter = "start"
    /\ result = Returned(TRUE)
    /\ ingestion_status = "CANCELLED"
    /\ {"CREATED", "error"} \subseteq observed
    /\ polls >= 3

\* smallest n with n * b >= a
Ceil(a, b) == (a + b - 1) \div b

\* C13 as stated: a start waiter all of whose polls gave RUNNING returns
\* False, after the timeout has elapsed.
C13_RunningUntilTimeoutReturnsFalse ==
    (waiter = "start" /\ observed = {"RUNNING"} /\ result.returned) =>
        /\ result = Returned(FALSE)
        /\ now >= timeout_seconds

\* C13 amended: a start waiter whose poll gives RUNNING returns True at its
\* first poll; one all of whose polls give CREATED polls once per check
\* interval (plus the duration of a poll) and returns False once the
\* timeout has elapsed, after ceil(timeout / period) polls.
C13_CreatedUntilTimeoutReturnsFalse ==
    waiter = "start" =>
        /\ observed = {"RUNNING"} =>
              /\ result = Returned(TRUE)
              /\ polls = 1 /\ poll_at = 0 /\ now = poll_seconds
        /\ observed = {"CREATED"} =>
              /\ poll_at = (polls - 1) * (StartCheckInterval + poll_seconds)
              /\ now = IF AtLoopCondition
                       THEN polls * (StartCheckInterval + poll_seconds)
                       ELSE poll_at + poll_seconds
              /\ result.returned =>
                    /\ result = Returned(FALSE)
                    /\ now >= timeout_seconds
                    /\ polls = Ceil(timeout_seconds,
                                    StartCheckInterval + poll_seconds)

C13_Witness ==
    /\ waiter = "start"
    /\ observed = {"CREATED"}
    /\ result = Returned(FALSE)
    /\ polls >= 3
    /\ timeout_seconds = (polls - 1) * StartCheckInterval + 1

\* C14: a poll that raises inside wait_for_refresh_to_start aborts neither
\* the waiter nor the dataset: the waiter sleeps one check interval and its
\* loop goes on, it returns True only on a later poll with a started or
\* terminal status and False only at the timeout; when every poll raised
\* it returns False, and the revert still runs and the dataset is recorded
\* as a success with refresh_started false.
C14_PollErrorsAreNotFatal ==
    (waiter = "start" /\ "error" \in observed) =>
        /\ ingestion_status = "error" =>
              /\ now = poll_at + poll_seconds
                          + (IF AtLoopCondition THEN StartCheckInterval ELSE 0)
              /\ ~AtLoopCondition => ~result.returned
              /\ result.returned =>
                    (result = Returned(FALSE) /\ now >= timeout_seconds)
        /\ ~result.returned => pc[1] = "wait"
        /\ result = Returned(TRUE) => ingestion_status \in ObservedStart
        /\ (observed = {"error"} /\ result.returned) =>
              /\ result = Returned(FALSE)
              /\ wait_success[1] = "False"
        /\ result.returned => pc[1] \in RevertSteps \cup {"done"}
        /\ fault[1] \in RevertFaults
        /\ pc[1] = "done" =>
              /\ StepIssued(1, "revert")
              /\ OutcomeOf(1).status = "success"
              /\ OutcomeOf(1).refresh_started = result.value

C14_Witness ==
    /\ waiter = "start"
    /\ observed = {"error"}
    /\ polls >= 3
    /\ result = Returned(FALSE)
    /\ pc[1] = "done"
    /\ Issued(1, UpdateDataSet("revert"))
    /\ OutcomeOf(1).refresh_started = FALSE

\* C15: wait_for_refresh_to_start terminates whatever its polls give or
\* raise: it makes at most ceil(timeout / interval) polls, none when the
\* timeout is 0, and it returns before timeout + one interval (plus the
\* duration of a poll, 0 for a clock that only advances in the sleeps)
\* has elapsed.
C15_StartWaiterTerminates ==
    /\ [](waiter = "start" =>
            /\ polls <= Ceil(timeout_seconds, StartCheckInterval + poll_seconds)
            /\ polls <= Ceil(timeout_seconds, StartCheckInterval)
            /\ timeout_seconds = 0 => polls = 0
            /\ now < timeout_seconds + StartCheckInterval + poll_seconds)
    /\ (waiter = "start" ~> result.returned)

C15_Witness ==
    /\ waiter = "start"
    /\ poll_seconds = 0
    /\ result.returned
    /\ {"error", "CREATED"} \subseteq observed
    /\ polls = Ceil(timeout_seconds, StartCheckInterval)
    /\ polls >= 4
    /\ now = timeout_seconds + StartCheckInterval - 1

\* C16: wait_for_refresh_completion returns at the first poll, made before
\* the timeout, that gives a terminal status, and reports it: success True
\* with status completed exactly on COMPLETED, success False with status
\* failed and the error detail on FAILED, status cancelled on CANCELLED;
\* it returns status timeout, success False, when no poll gave a terminal
\* status, and then the timeout has elapsed: it never returns on a job in
\* progress while time remains.
C16_CompletionWaiterResult ==
    waiter = "completion" =>
        /\ ~result.returned => observed \cap TerminalSet = {}
        /\ result.returned =>
              /\ result.value.success <=> ingestion_status = "COMPLETED"
              /\ ingestion_status = "COMPLETED" =>
                    result.value = [status |-> "completed", success |-> TRUE]
              /\ ingestion_status = "FAILED" =>
                    result.value = [status |-> "failed", success |-> FALSE,
                                    error |-> "ErrorInfo"]
              /\ ingestion_status = "CANCELLED" =>
                    result.value = [status |-> "cancelled", success |-> FALSE]
              /\ ingestion_status \in TerminalSet =>
                    /\ poll_at < timeout_seconds
                    /\ (observed \ {ingestion_status}) \cap TerminalSet = {}
              /\ ingestion_status \notin TerminalSet =>
                    /\ result.value = [status |-> "timeout", success |-> FALSE]
                    /\ observed \cap TerminalSet = {}
                    /\ now >= timeout_seconds

C16_Witness ==
    /\ waiter = "completion"
    /\ result.returned
    /\ result.value.status = "failed"
    /\ {"RUNNING", "error"} \subseteq observed
    /\ poll_at = 2 * CompletionCheckInterval

\* a rolling-window predicate, of the inequality or of the BETWEEN shape
IsRolling(t) == t.k \in {"ge", "btw"}

IsPredicate(t) == t.k \in {"ge", "btw", "eq"}

\* the text without the "WHERE <filter>" pieces dailycron.py inserts: its
\* pieces are those of the input, in order, rewritten or not
RECURSIVE StripAdded(_)
StripAdded(q) ==
    IF q = <<>> THEN <<>>
    ELSE IF Head(q).k = "whr" THEN StripAdded(Tail(Tail(q)))
    ELSE <<Head(q)>> \o StripAdded(Tail(q))

\* the pieces the narrow (widen) rewriter of module rw has a pattern for
NarrowRecognizes(rw, t) ==
    IF rw = "fixed" THEN IsRolling(t) /\ t.a = "bv." ELSE t.k = "ge"

WidenRecognizes(rw, t) ==
    IF rw = "fixed" THEN t.k = "eq" /\ t.a = "bv." ELSE t.k = "eq"

\* C17: the narrow function replaces every rolling-window predicate of the
\* query, inequality or BETWEEN, with or without alias, whatever its
\* window, by an equality against the target date on the same column, and
\* its result holds no rolling-window predicate.
C17_NarrowReplacesEveryShape ==
    applied = <<"narrow">> =>
        /\ \A i \in 1..Len(input) :
              IsRolling(input[i]) =>
                  StripAdded(query)[i] = Eq(input[i].a, yyyymmdd)
        /\ \A i \in 1..Len(query) : ~IsRolling(query[i])

\* C18: when the query holds no predicate the rewriter recognizes, narrow
\* and widen return the input unchanged, and the count they report, if
\* they report one, is 0.
C18_NoPredicateNoChange ==
    /\ (applied = <<"narrow">>
          /\ \A i \in 1..Len(input) : ~NarrowRecognizes(rewriter, input[i]))
        => (query = input /\ count \in {0, NotReported})
    /\ (applied = <<"widen">>
          /\ \A i \in 1..Len(input) : ~WidenRecognizes(rewriter, input[i]))
        => (query = input /\ count \in {0, NotReported})

\* C19: narrow and widen keep the alias prefix of every predicate they
\* rewrite: piece by piece the text they return has the alias of the
\* input (none where the input has none), and only predicates change.
C19_AliasPreserved ==
    applied # <<>> =>
        LET out == StripAdded(query) IN
        /\ Len(out) = Len(input)
        /\ \A i \in 1..Len(input) :
              /\ out[i].a = input[i].a
              /\ out[i] # input[i] => (IsPredicate(input[i]) /\ IsPredicate(out[i]))

C19_Witness ==
    /\ rewriter = "cron2"
    /\ applied = <<"narrow", "widen">>
    /\ \E i, j \in 1..Len(input) :
          /\ input[i] = Ge("q.", 30) /\ query[i] = Ge("q.", 60)
          /\ input[j] = Ge("", 30) /\ query[j] = Ge("", 60)

\* C20: for a query without equality predicates whose rolling-window
\* predicates all have window w, widen(narrow(q, d), w) holds, in the place
\* of every rolling-window predicate of q, that same predicate: same shape,
\* same alias, same bounds.
C20_RoundTripRestores ==
    (/\ applied = <<"narrow", "widen">>
     /\ \A i \in 1..Len(input) :
           /\ input[i].k # "eq"
           /\ IsRolling(input[i]) => input[i].w = window)
    => \A i \in 1..Len(input) :
           IsRolling(input[i]) => StripAdded(query)[i] = input[i]

\* C21: in cron2.py, for a query with several inequality predicates of
\* different window lengths and aliases, narrow rewrites every one of them
\* to an equality against the one target date, and widen rewrites every
\* single-day predicate to the inequality of the one window length it is
\* given: after narrow and widen every such predicate carries that window,
\* whatever its own was, under its own alias.
C21_AllPredicatesGetOneWindow ==
    rewriter = "cron2" =>
        /\ Len(query) = Len(input)
        /\ applied = <<"narrow">> =>
              /\ \A i \in 1..Len(input) :
                    input[i].k = "ge" => query[i] = Eq(input[i].a, yyyymmdd)
              /\ ~HasKind(query, "ge")
        /\ applied = <<"widen">> =>
              /\ \A i \in 1..Len(input) :
                    input[i].k = "eq" => query[i] = Ge(input[i].a, window)
              /\ ~HasKind(query, "eq")
        /\ applied = <<"narrow", "widen">> =>
              /\ \A i \in 1..Len(input) :
                    input[i].k \in {"ge", "eq"} => query[i] = Ge(input[i].a, window)
              /\ ~HasKind(query, "eq")

C21_Witness ==
    /\ rewriter = "cron2"
    /\ applied = <<"narrow", "widen">>
    /\ window = 60
    /\ \E i, j \in 1..Len(input) :
          /\ i < j
          /\ input[i] = Ge("", 60) /\ query[i] = Ge("", 60)
          /\ input[j] = Ge("q.", 30) /\ query[j] = Ge("q.", 60)

\* the remote calls that can raise for a dataset
RemoteFailures ==
    {"narrow_describe", "narrow_update", "trigger", "revert_describe",
     "revert_update"}

\* the query text of the dataset's custom-SQL table in a table map
QueryText(map) == map[FirstCustom(map)].sql

\* C22: once a dataset has been processed without any remote call raising,
\* the query text of its custom-SQL table equals the text before the run,
\* for every text in steady state (no single-day predicate) whose
\* rolling-window predicates have the configured window length, also a
\* text without any date predicate.
C22_RunRestoresQueryText ==
    \A d \in Datasets :
        (/\ pc[d] = "done"
         /\ fault[d] \notin RemoteFailures
         /\ FirstCustom(original[d]) # 0
         /\ ~HasKind(QueryText(original[d]), "eq")
         /\ \A i \in 1..Len(QueryText(original[d])) :
               IsRolling(QueryText(original[d])[i]) =>
                   QueryText(original[d])[i].w = RollingWindowDays(d))
        => /\ FirstCustom(tables[d]) # 0
           /\ QueryText(tables[d]) = QueryText(original[d])

\* the table map a dataset processed on its own ends with, given the remote
\* record it started from and the step that failed for it
ExpectedTables(v, d, f) ==
    CASE f \in {"narrow_undefined", "narrow_describe", "narrow_notable",
                "narrow_update"} ->
            original[d]
      [] f \in {"narrow_falsy", "trigger", "revert_describe", "revert_update"} ->
            ModifiedMap(v, original[d], yyyymmdd)
      [] OTHER ->
            RevertedMap(v, ModifiedMap(v, original[d], yyyymmdd),
                        RollingWindowDays(d))

\* the outcome of a dataset processed on its own
ExpectedOutcome(v, d, f) ==
    CASE f = "narrow_undefined" -> FailedOutcome(v, d, d, UndefinedNameMessage)
      [] f \in NarrowFailures -> FailedOutcome(v, d, d, NarrowErrorMessage(v))
      [] f = "trigger"        -> FailedOutcome(v, d, d, TriggerErrorMessage)
      [] OTHER -> SuccessOutcome(v, d, d, NewIngestionId(yyyymmdd),
                                 f = "none", wait_success[d])

\* C23: with process_single_dataset_with_wait running in several workers
\* at once, under every interleaving of their steps a dataset's remote
\* calls, its remote record and its outcome are those of the dataset
\* processed alone: they depend on its own record and its own remote calls
\* only, and a dataset not yet started still has its record of before the
\* run.
C23_WorkersAreIndependent ==
    \A d \in Datasets :
        /\ pc[d] \in {"queued", "client", "escaped"} =>
              (tables[d] = original[d] /\ calls[d] = <<>> /\ ~HasOutcome(d))
        /\ pc[d] \in {"narrow", "narrow_update"} =>
              (tables[d] = original[d] /\ ~HasOutcome(d))
        /\ pc[d] \in SubmittedSteps \ {"revert_update"} =>
              /\ tables[d] = ModifiedMap(variant, original[d], yyyymmdd)
              /\ ~HasOutcome(d)
        /\ pc[d] = "done" =>
              /\ calls[d] = ExpectedCalls(variant, fault[d], ingestion_id[d])
              /\ tables[d] = ExpectedTables(variant, d, fault[d])
              /\ Cardinality(OutcomesOf(d)) = 1
              /\ OutcomeOf(d) = ExpectedOutcome(variant, d, fault[d])

\* two workers were in their wait loops at the same time, the later
\* dataset finished first, and one of them failed
C23_Witness ==
    /\ \A d \in Datasets : pc[d] = "done"
    /\ Len(results) >= 2
    /\ results[1].dataset_id = 2 /\ results[1].status = "success"
    /\ results[2].dataset_id = 1 /\ results[2].status = "success"
    /\ wait_success[1] = "False" /\ wait_success[2] = "True"
    /\ fault[1] = "revert_update"

Submits(d) == {i \in 1..Len(calls[d]) : calls[d][i].op = "create_ingestion"}

\* trigger_incremental_refresh has returned the service's response for d
TriggerReturned(d) ==
    \/ pc[d] \in SubmittedSteps
    \/ pc[d] = "done" /\ fault[d] \notin NarrowFailures \cup {"trigger"}

\* C24: a call of trigger_incremental_refresh submits exactly one reload
\* request, of type INCREMENTAL_REFRESH, for its dataset; when the service
\* answers, the handle of the response is the one the coordinator goes on
\* with; when the service call raises, the error reaches the coordinator
\* as it is (the dataset's outcome carries its message), no second request
\* is made, no handle exists and no job was created.
C24_TriggerSubmitsOnce ==
    \A d \in Datasets :
        /\ Cardinality(Submits(d)) <= 1
        /\ \A i \in Submits(d) :
              /\ calls[d][i].IngestionType = "INCREMENTAL_REFRESH"
              /\ calls[d][i].id = NewIngestionId(yyyymmdd)
        /\ pc[d] \in UnsubmittedSteps => Submits(d) = {}
        /\ TriggerReturned(d) =>
              /\ Cardinality(Submits(d)) = 1
              /\ ingestion_id[d] # NoId
              /\ \A i \in Submits(d) : calls[d][i].id = ingestion_id[d]
              /\ job[d] # "NONE"
        /\ fault[d] = "trigger" =>
              /\ Cardinality(Submits(d)) = 1
              /\ calls[d][Len(calls[d])].op = "create_ingestion"
              /\ ingestion_id[d] = NoId
              /\ job[d] = "NONE"
              /\ HasOutcome(d)
              /\ OutcomeOf(d).status = "failed"
              /\ OutcomeOf(d).error = TriggerErrorMessage

C24_Witness ==
    /\ LoopEnded
    /\ \E d \in Datasets :
          /\ fault[d] = "trigger" /\ ingestion_id[d] = NoId
          /\ Cardinality(Submits(d)) = 1
    /\ \E d \in Datasets :
          /\ fault[d] = "none" /\ TriggerReturned(d)
          /\ Cardinality(Submits(d)) = 1
          /\ OutcomeOf(d).ingestion_id = ingestion_id[d]

\* C25: whenever the narrow step reported failure to the coordinator (a
\* falsy original_sql in dailycron.py and con.py, False in fixed.py), the
\* step committed no update: the dataset's remote record is the one of
\* before the step, whatever the original query text was, the empty text
\* included.
C25_FailedNarrowCommitsNothing ==
    \A d \in Datasets :
        fault[d] \in NarrowFailures =>
            /\ tables[d] = original[d]
            /\ ~NarrowCommitted(d)

\* C26: in wait_for_refresh_completion every poll that does not return is
\* followed by a sleep of the check interval, whatever the poll gave (a
\* status outside the six named ones included): while the loop runs, the
\* time since the last poll was issued is the duration of the poll plus
\* the check interval.
C26_CompletionWaiterAlwaysSleeps ==
    (waiter = "completion" /\ polls > 0 /\ ~result.returned) =>
        /\ AtLoopCondition =>
               now = poll_at + poll_seconds + CompletionCheckInterval
        /\ ~AtLoopCondition => now = poll_at + poll_seconds

\* the narrow update of dataset d is the last update committed for it
Narrowed(d) ==
    \/ pc[d] \in {"trigger"} \cup SubmittedSteps
    \/ pc[d] = "done" /\ fault[d] \in {"narrow_falsy", "trigger"} \cup RevertFailures

\* C27: an update of the narrow or widen step changes query texts only:
\* every entry of the dataset's physical table map of before the run is
\* still present, a table without custom SQL as it was, and every
\* custom-SQL table with its query rewritten (narrowed to the target date
\* while the narrow update is the last one committed).
C27_UpdateChangesOnlyQueryText ==
    \A d \in Datasets :
        /\ Len(tables[d]) = Len(original[d])
        /\ \A i \in 1..Len(original[d]) :
              IF original[d][i].custom
              THEN /\ tables[d][i].custom
                   /\ Narrowed(d) =>
                         tables[d][i].sql =
                             NarrowSql(variant, original[d][i].sql, yyyymmdd)
              ELSE tables[d][i] = original[d][i]

\* a step keeps the outcomes recorded so far as they are
OutcomesKept ==
    /\ Len(results') >= Len(results)
    /\ \A i \in 1..Len(results) : results'[i] = results[i]

\* C28: a dataset's outcome has status success exactly when its narrow
\* step reported success (the trigger was called) and the trigger returned
\* a handle; a success outcome carries that handle, the target date of the
\* run and the dataset's window length; a failed outcome carries a
\* non-empty error and no handle; and no step changes an outcome already
\* in the results.
C28_OutcomeInvariants ==
    /\ [](\A d \in Datasets : \A i \in OutcomesOf(d) :
            /\ results[i].status \in {"success", "failed"}
            /\ results[i].status = "success" <=>
                  (StepIssued(d, "trigger") /\ ingestion_id[d] # NoId)
            /\ results[i].status = "success" =>
                  /\ results[i].ingestion_id = ingestion_id[d]
                  /\ \E j \in Submits(d) : calls[d][j].id = results[i].ingestion_id
                  /\ results[i].target_date = yyyymmdd
                  /\ results[i].rolling_window_days = RollingWindowDays(d)
            /\ results[i].status = "failed" =>
                  /\ "error" \in DOMAIN results[i]
                  /\ results[i].error # ""
                  /\ "ingestion_id" \notin DOMAIN results[i])
    /\ [][OutcomesKept]_vars

C28_Witness ==
    /\ LoopEnded
    /\ Len(results) = NumDatasets
    /\ results[1].status = "success" /\ results[1].ingestion_id # NoId
    /\ results[1].rolling_window_days = RollingWindowDays(1)
    /\ results[2].status = "failed" /\ results[2].error = TriggerErrorMessage

\* C29: in every entry point the outcome of a dataset whose widen step
\* failed differs from the outcome the dataset would have had with a
\* successful widen: its status is failed, or it carries a sql_reverted
\* flag that is false.
C29_FailedWidenObservable ==
    \A d \in Datasets :
        (pc[d] = "done" /\ fault[d] \in RevertFailures) =>
            /\ HasOutcome(d)
            /\ OutcomeOf(d) # SuccessOutcome(variant, d, ProcessingOrder(d),
                                             ingestion_id[d], TRUE,
                                             wait_success[d])
            /\ \/ OutcomeOf(d).status = "failed"
               \/ /\ "sql_reverted" \in DOMAIN OutcomeOf(d)
                  /\ OutcomeOf(d).sql_reverted = FALSE

\* the dataset was left in single-day form by an earlier run: its query
\* holds an equality predicate on the earlier date
LeftNarrowed(d) ==
    /\ FirstCustom(original[d]) # 0
    /\ HasEqDate(QueryText(original[d]), EarlierDate)

\* the reload of dataset d has been submitted and its widen has not run
SubmittedNarrowed(d) == pc[d] \in SubmittedSteps

\* C30: for a dataset left in single-day form by an earlier run, in a run
\* whose remote calls all succeed, the reload is submitted while the query
\* filters on the target date of this run (its single-day predicates are
\* all on that date), and once the dataset is processed its query holds no
\* single-day predicate.
C30_SelfHealing ==
    \A d \in Datasets :
        (LeftNarrowed(d) /\ fault[d] = "none") =>
            /\ SubmittedNarrowed(d) =>
                  LET q == QueryText(tables[d]) IN
                  /\ HasEqDate(q, yyyymmdd)
                  /\ \A i \in 1..Len(q) : q[i].k = "eq" => q[i].w = yyyymmdd
            /\ pc[d] = "done" => ~HasKind(QueryText(tables[d]), "eq")

\* the ordinal o is one of Monday to Friday
IsWeekday(o) == weekday([ordinal |-> o, hour |-> 0]) \in Monday..Friday

\* get_previous_business_day has returned
DateReturned == target_date # NoDate

\* C31: get_previous_business_day accounts for weekends: whatever the day
\* of the week it is called on, the date it returns falls on Monday to
\* Friday, lies strictly before today with no Monday-to-Friday day in
\* between, is the Friday before when today is a Saturday, Sunday or
\* Monday and the previous calendar day otherwise; the time of day is
\* that of the call, and the formatted target date is that day's.
C31_PreviousBusinessDay ==
    DateReturned =>
        /\ IsWeekday(target_date.ordinal)
        /\ target_date.ordinal < today.ordinal
        /\ \A o \in (target_date.ordinal + 1)..(today.ordinal - 1) :
               ~IsWeekday(o)
        /\ IF weekday(today) \in {Saturday, Sunday, Monday}
           THEN /\ weekday(target_date) = Friday
                /\ today.ordinal - target_date.ordinal \in 1..3
           ELSE target_date.ordinal = today.ordinal - 1
        /\ target_date.hour = today.hour
        /\ formatted # NotFormatted =>
               formatted = strftime([ordinal |-> target_date.ordinal,
                                     hour |-> 0])

\* called on a Sunday whose Friday is in the month before, the target date
\* computed and formatted
C31_Witness ==
    /\ DateReturned
    /\ weekday(today) = Sunday
    /\ formatted # NotFormatted
    /\ CalendarDate(today.ordinal).month # CalendarDate(target_date.ordinal).month

====
